---- MODULE Spec2Model ----
(***************************************************************************)
(* mdink: markdown viewer.  Model of the layout engine (layout.rs), of the *)
(* application state (app.rs) and of the event loop (main.rs).             *)
(*                                                                         *)
(* A Rust String is modelled as the sequence of its UTF-8 bytes.  Every    *)
(* ASCII character is one byte, written as a one-character string.  The    *)
(* ideograph "W" stands for a CJK character (line-break class ID, three    *)
(* bytes, two columns): its lead byte is "W" and each continuation byte    *)
(* is "c".  Offsets are byte offsets counted from 0, as in the source.     *)
(***************************************************************************)
EXTENDS Integers, Sequences, FiniteSets, TLC

(***************************************************************************)
(* Bounds of the model.                                                    *)
(***************************************************************************)
\* longest paragraph text, in characters, that Init enumerates
MaxTextLen == 3
\* widest column count that Init and the resize events enumerate
MaxWidth == 3
\* longest block sequence that Init enumerates
MaxBlocks == 2
\* most terminal rows that Init and the resize events enumerate
MaxRows == 3

(***************************************************************************)
(* Strings: bytes, characters, slices.                                     *)
(***************************************************************************)
SP == " "
HY == "-"
NL == "\n"
\* lead byte of the three-byte, two-column ideograph
ID == "W"
\* continuation byte of a multi-byte character
CONT == "c"

\* char::len_utf8 of the character whose lead byte is b
len_utf8(b) == IF b = ID THEN 3 ELSE 1

\* UTF-8 encoding of one character
Utf8(ch) == IF ch = ID THEN <<ID, CONT, CONT>> ELSE <<ch>>

RECURSIVE Encode(_)
\* String built from a sequence of characters
Encode(chs) ==
    IF chs = <<>> THEN <<>> ELSE Utf8(Head(chs)) \o Encode(Tail(chs))

\* str::is_char_boundary(p), p a byte offset from 0
is_char_boundary(s, p) ==
    \/ p = 0
    \/ p = Len(s)
    \/ p > 0 /\ p < Len(s) /\ s[p + 1] # CONT

\* &s[a..b]: bytes a (inclusive) to b (exclusive), offsets from 0
Slice(s, a, b) == SubSeq(s, a + 1, b)

\* s.starts_with(t)
starts_with(s, t) == Len(t) <= Len(s) /\ SubSeq(s, 1, Len(t)) = t

\* unicode_width of the character whose lead byte is b (0 for a continuation byte)
ch_width(b) == IF b = ID THEN 2 ELSE IF b = CONT THEN 0 ELSE 1

RECURSIVE display_width(_)
\* textwrap::core::display_width: columns of a string
display_width(s) ==
    IF s = <<>> THEN 0 ELSE ch_width(Head(s)) + display_width(Tail(s))

RECURSIVE trim_end_len(_)
\* length of s.trim_end_matches(' ')
trim_end_len(s) ==
    IF s = <<>> THEN 0
    ELSE IF s[Len(s)] = SP THEN trim_end_len(SubSeq(s, 1, Len(s) - 1))
    ELSE Len(s)

\* char::is_alphanumeric of the character whose lead byte is b
is_alphanumeric(b) == b \notin {SP, HY, NL, CONT}

RECURSIVE SplitOn(_, _)
\* str::split(sep) for a one-byte separator: always at least one part
SplitOn(s, sep) ==
    IF \E i \in 1..Len(s) : s[i] = sep
    THEN LET i == CHOOSE k \in 1..Len(s) :
                     s[k] = sep /\ \A m \in 1..(k - 1) : s[m] # sep
         IN  <<SubSeq(s, 1, i - 1)>> \o SplitOn(SubSeq(s, i + 1, Len(s)), sep)
    ELSE <<s>>

RECURSIVE Concat(_)
\* concatenation of a sequence of sequences
Concat(ss) == IF ss = <<>> THEN <<>> ELSE Head(ss) \o Concat(Tail(ss))

(***************************************************************************)
(* textwrap::wrap as wrap_styled_spans configures it: Options::new(width)  *)
(* with WordSeparator::UnicodeBreakProperties; the word splitter           *)
(* (HyphenSplitter), break_words (true), the wrap algorithm (OptimalFit    *)
(* with Penalties::new()) and the empty indents are the library defaults.  *)
(***************************************************************************)
nline_penalty == 1000
overflow_penalty == 2500
short_last_line_fraction == 4
short_last_line_penalty == 25

\* Word::from: the trailing ' ' of a segment become the word's whitespace
WordFrom(seg) ==
    LET n == trim_end_len(seg)
    IN  [word |-> SubSeq(seg, 1, n), whitespace |-> SubSeq(seg, n + 1, Len(seg))]

\* A line-break opportunity at byte offset p (0 < p < Len(line)) under UAX #14
\* for the classes AL ("a"), SP, HY and ID, after textwrap's filter, which
\* drops every opportunity that follows a '-'.
BreakOpportunity(line, p) ==
    /\ p > 0 /\ p < Len(line)
    /\ line[p + 1] \notin {SP, CONT}
    /\ line[p] # HY
    /\ \/ line[p] = SP
       \/ line[p + 1] # HY /\ (line[p] = CONT \/ line[p + 1] = ID)

RECURSIVE SegmentsFrom(_, _, _)
\* the segments of line[start..] cut at the opportunities, p the scan offset
SegmentsFrom(line, start, p) ==
    IF p >= Len(line)
    THEN IF start < Len(line) THEN <<Slice(line, start, Len(line))>> ELSE <<>>
    ELSE IF BreakOpportunity(line, p)
         THEN <<Slice(line, start, p)>> \o SegmentsFrom(line, p, p + 1)
         ELSE SegmentsFrom(line, start, p + 1)

\* WordSeparator::UnicodeBreakProperties.find_words
find_words(line) ==
    LET segs == SegmentsFrom(line, 0, 1)
    IN  [k \in 1..Len(segs) |-> WordFrom(segs[k])]

\* WordSplitter::HyphenSplitter.split_points: after each '-' that stands
\* between two alphanumeric characters
SplitPoint(w, p) ==
    /\ p >= 2 /\ p < Len(w)
    /\ w[p] = HY
    /\ is_alphanumeric(w[p - 1]) \/ (w[p - 1] = CONT)
    /\ is_alphanumeric(w[p + 1])

RECURSIVE SplitWordFrom(_, _, _)
\* the fragments of one word cut at its split points, prev the last cut
SplitWordFrom(word, prev, p) ==
    IF p >= Len(word.word)
    THEN IF prev < Len(word.word) \/ prev = 0
         THEN <<[word |-> Slice(word.word, prev, Len(word.word)),
                 whitespace |-> word.whitespace]>>
         ELSE <<>>
    ELSE IF SplitPoint(word.word, p)
         THEN <<[word |-> Slice(word.word, prev, p), whitespace |-> <<>>]>>
              \o SplitWordFrom(word, p, p + 1)
         ELSE SplitWordFrom(word, prev, p + 1)

RECURSIVE split_words(_)
\* textwrap::word_splitters::split_words
split_words(words) ==
    IF words = <<>> THEN <<>>
    ELSE SplitWordFrom(Head(words), 0, 1) \o split_words(Tail(words))

RECURSIVE BreakApartFrom(_, _, _, _, _)
\* Word::break_apart: offset is the start of the current piece, idx the
\* byte offset of the character looked at, w the columns taken so far
BreakApartFrom(word, line_width, offset, idx, w) ==
    IF idx >= Len(word.word)
    THEN IF offset < Len(word.word)
         THEN <<[word |-> Slice(word.word, offset, Len(word.word)),
                 whitespace |-> word.whitespace]>>
         ELSE <<>>
    ELSE LET b == word.word[idx + 1]
             next == idx + len_utf8(b)
         IN  IF w > 0 /\ w + ch_width(b) > line_width
             THEN <<[word |-> Slice(word.word, offset, idx), whitespace |-> <<>>]>>
                  \o BreakApartFrom(word, line_width, idx, next, ch_width(b))
             ELSE BreakApartFrom(word, line_width, offset, next, w + ch_width(b))

RECURSIVE break_words(_, _)
\* textwrap::core::break_words
break_words(words, line_width) ==
    IF words = <<>> THEN <<>>
    ELSE (IF display_width(Head(words).word) > line_width
          THEN BreakApartFrom(Head(words), line_width, 0, 0, 0)
          ELSE <<Head(words)>>)
         \o break_words(Tail(words), line_width)

RECURSIVE WidthsUpTo(_, _)
\* widths[j] of wrap_optimal_fit: columns of fragments 1..j with whitespace
WidthsUpTo(frags, j) ==
    IF j = 0 THEN 0
    ELSE WidthsUpTo(frags, j - 1)
         + display_width(frags[j].word) + Len(frags[j].whitespace)

\* the cost wrap_optimal_fit adds for a line holding fragments i+1..j
LineCost(frags, width, i, j) ==
    LET target_width == IF width > 1 THEN width ELSE 1
        line_width == WidthsUpTo(frags, j) - WidthsUpTo(frags, i)
                      - Len(frags[j].whitespace)
    IN  nline_penalty
        + (IF line_width > target_width
           THEN (line_width - target_width) * overflow_penalty
           ELSE IF j < Len(frags)
           THEN (target_width - line_width) * (target_width - line_width)
           ELSE IF i + 1 = j /\ line_width * short_last_line_fraction < target_width
           THEN short_last_line_penalty
           ELSE 0)

RECURSIVE Minima(_, _, _)
\* minima[0..j] of wrap_optimal_fit, entry j + 1 being <<i, cost>>: the
\* cheapest way to end a line after fragment j starts that line after
\* fragment i (the first such i when several cost the same)
Minima(frags, width, j) ==
    IF j = 0 THEN <<(<<0, 0>>)>>
    ELSE LET minima == Minima(frags, width, j - 1)
             cost == [i \in 0..(j - 1) |->
                         minima[i + 1][2] + LineCost(frags, width, i, j)]
             best == CHOOSE i \in 0..(j - 1) :
                         \A k \in 0..(j - 1) :
                             \/ cost[i] < cost[k]
                             \/ cost[i] = cost[k] /\ i <= k
         IN  Append(minima, <<best, cost[best]>>)

RECURSIVE LinesEndingAt(_, _)
\* the lines read back from minima, first line first: each line is the
\* pair <<first, last>> of the indexes of its fragments
LinesEndingAt(minima, pos) ==
    LET prev == minima[pos + 1][1]
    IN  (IF prev = 0 THEN <<>> ELSE LinesEndingAt(minima, prev))
        \o <<(<<prev + 1, pos>>)>>

\* textwrap::wrap_algorithms::wrap_optimal_fit
wrap_optimal_fit(frags, width) ==
    LinesEndingAt(Minima(frags, width, Len(frags)), Len(frags))

RECURSIVE BytesOf(_, _, _)
\* bytes of fragments first..last with their whitespace
BytesOf(frags, first, last) ==
    IF first > last THEN 0
    ELSE Len(frags[first].word) + Len(frags[first].whitespace)
         + BytesOf(frags, first + 1, last)

RECURSIVE LineTexts(_, _, _, _)
\* wrap_single_line_slow_path: the text of each wrapped line, a slice of
\* line that starts at idx and leaves out the last word's whitespace
LineTexts(line, frags, wrapped, idx) ==
    IF wrapped = <<>> THEN <<>>
    ELSE LET first == Head(wrapped)[1]
             last == Head(wrapped)[2]
             total == BytesOf(frags, first, last)
             len == total - Len(frags[last].whitespace)
         IN  <<Slice(line, idx, idx + len)>>
             \o LineTexts(line, frags, Tail(wrapped), idx + total)

\* textwrap::wrap_single_line
wrap_single_line(line, width) ==
    IF Len(line) < width
    THEN <<SubSeq(line, 1, trim_end_len(line))>>
    ELSE LET frags == break_words(split_words(find_words(line)), width)
         IN  LineTexts(line, frags, wrap_optimal_fit(frags, width), 0)

\* textwrap::wrap(&plain, &wrap_options)
textwrap_wrap(text, width) ==
    LET parts == SplitOn(text, NL)
    IN  Concat([k \in 1..Len(parts) |-> wrap_single_line(parts[k], width)])

(***************************************************************************)
(* layout.rs: wrap_styled_spans, build_spans_for_range and                 *)
(* wrap_with_hard_breaks.  A StyledSpan is [text, style], a Span of a      *)
(* wrapped Line is [content, style], a Line is the sequence of its Spans.  *)
(***************************************************************************)
\* Style::default()
DefaultStyle == "default"

\* text.contains('\n')
contains_newline(text) == \E i \in 1..Len(text) : text[i] = NL

\* spans.iter().any(|s| s.text.contains('\n'))
HasHardBreak(spans) == \E k \in 1..Len(spans) : contains_newline(spans[k].text)

\* plain: the text of all spans, concatenated
PlainOf(spans) == Concat([k \in 1..Len(spans) |-> spans[k].text])

\* byte_styles: one entry per byte of plain, the style of the byte's span
ByteStylesOf(spans) ==
    Concat([k \in 1..Len(spans) |->
               [i \in 1..Len(spans[k].text) |-> spans[k].style]])

RECURSIVE FindForward(_, _, _)
\* the while loop of wrap_styled_spans: the first offset at or after cursor,
\* stepping by whole characters, where plain continues with wrapped_text;
\* plain.len() when there is none
FindForward(plain, cursor, wrapped_text) ==
    IF cursor >= Len(plain) THEN cursor
    ELSE IF starts_with(Slice(plain, cursor, Len(plain)), wrapped_text) THEN cursor
    ELSE FindForward(plain, cursor + len_utf8(plain[cursor + 1]), wrapped_text)

RECURSIVE RunsFromEachChar(_, _, _, _, _, _)
\* faulty variant of RunsFrom: every character is a run of its own
RunsFromEachChar(plain, byte_styles, end_, run_start, run_style, abs_pos) ==
    IF abs_pos >= end_ THEN <<>>
    ELSE LET next == abs_pos + len_utf8(plain[abs_pos + 1])
         IN  <<[content |-> Slice(plain, abs_pos, next),
                style |-> byte_styles[abs_pos + 1]]>>
             \o RunsFromEachChar(plain, byte_styles, end_, next,
                                 byte_styles[abs_pos + 1], next)

RECURSIVE RunsFrom(_, _, _, _, _, _)
\* the for loop of build_spans_for_range and its final run: abs_pos walks
\* the characters of plain[start..end]
RunsFrom(plain, byte_styles, end_, run_start, run_style, abs_pos) ==
    IF abs_pos >= end_
    THEN IF run_start < end_
         THEN <<[content |-> Slice(plain, run_start, end_), style |-> run_style]>>
         ELSE <<>>
    ELSE LET next == abs_pos + len_utf8(plain[abs_pos + 1])
         IN  IF byte_styles[abs_pos + 1] # run_style
             THEN (IF run_start < abs_pos
                   THEN <<[content |-> Slice(plain, run_start, abs_pos),
                           style |-> run_style]>>
                   ELSE <<>>)
                  \o RunsFrom(plain, byte_styles, end_, abs_pos,
                              byte_styles[abs_pos + 1], next)
             ELSE RunsFrom(plain, byte_styles, end_, run_start, run_style, next)

\* faulty variant of build_spans_for_range: the range as one unstyled run
build_spans_unstyled(plain, byte_styles, start, end_) ==
    IF start >= end_ \/ start >= Len(plain) THEN <<>>
    ELSE <<[content |-> Slice(plain, start, end_), style |-> DefaultStyle]>>

\* build_spans_for_range(plain, byte_styles, start, end)
build_spans_for_range(plain, byte_styles, start, end_) ==
    IF start >= end_ \/ start >= Len(plain) THEN <<>>
    ELSE RunsFrom(plain, byte_styles, end_, start, byte_styles[start + 1], start)

\* whether build_spans_for_range slices plain[start..end] on character
\* boundaries inside plain (the slice panics otherwise)
SliceInBounds(plain, start, end_) ==
    \/ start >= end_
    \/ start >= Len(plain)
    \/ end_ <= Len(plain) /\ is_char_boundary(plain, start) /\ is_char_boundary(plain, end_)

\* faulty variant of MapWrappedLine: a line that is not empty ends one byte
\* early
MapWrappedLineShort(plain, byte_styles, cursor, wrapped_text) ==
    LET line_start == FindForward(plain, cursor, wrapped_text)
        line_end == IF wrapped_text = <<>> THEN line_start
                    ELSE IF line_start + Len(wrapped_text) - 1 < Len(plain)
                    THEN line_start + Len(wrapped_text) - 1 ELSE Len(plain)
    IN  [line_start |-> line_start,
         line_end |-> line_end,
         line |-> build_spans_for_range(plain, byte_styles, line_start, line_end)]

\* faulty variant of MapWrappedLine: the search starts at offset 0, not at
\* the cursor
MapWrappedLineFromStart(plain, byte_styles, cursor, wrapped_text) ==
    LET line_start == FindForward(plain, 0, wrapped_text)
        line_end == IF line_start + Len(wrapped_text) < Len(plain)
                    THEN line_start + Len(wrapped_text) ELSE Len(plain)
    IN  [line_start |-> line_start,
         line_end |-> line_end,
         line |-> build_spans_for_range(plain, byte_styles, line_start, line_end)]

\* one turn of the loop over wrapped_lines in wrap_styled_spans
MapWrappedLine(plain, byte_styles, cursor, wrapped_text) ==
    LET line_start == FindForward(plain, cursor, wrapped_text)
        line_end == IF line_start + Len(wrapped_text) < Len(plain)
                    THEN line_start + Len(wrapped_text) ELSE Len(plain)
    IN  [line_start |-> line_start,
         line_end |-> line_end,
         line |-> build_spans_for_range(plain, byte_styles, line_start, line_end)]

RECURSIVE MapWrappedLines(_, _, _, _)
\* the loop over wrapped_lines in wrap_styled_spans, from cursor on
MapWrappedLines(plain, byte_styles, cursor, wrapped) ==
    IF wrapped = <<>> THEN <<>>
    ELSE LET m == MapWrappedLine(plain, byte_styles, cursor, Head(wrapped))
         IN  <<m.line>> \o MapWrappedLines(plain, byte_styles, m.line_end, Tail(wrapped))

RECURSIVE PartsInto(_, _, _, _, _)
\* the inner loop of wrap_with_hard_breaks over the parts of one span:
\* gc is <<groups, current_group>>
PartsInto(parts, i, style, groups, current_group) ==
    IF i > Len(parts) THEN <<groups, current_group>>
    ELSE LET pushed == IF parts[i] # <<>>
                       THEN Append(current_group, [text |-> parts[i], style |-> style])
                       ELSE current_group
         IN  IF i < Len(parts)
             THEN PartsInto(parts, i + 1, style, Append(groups, pushed), <<>>)
             ELSE PartsInto(parts, i + 1, style, groups, pushed)

RECURSIVE GroupsInto(_, _, _)
\* the loop of wrap_with_hard_breaks over the spans, and the final push
GroupsInto(spans, groups, current_group) ==
    IF spans = <<>>
    THEN IF current_group # <<>> THEN Append(groups, current_group) ELSE groups
    ELSE LET span == Head(spans)
         IN  IF contains_newline(span.text)
             THEN LET gc == PartsInto(SplitOn(span.text, NL), 1, span.style,
                                      groups, current_group)
                  IN  GroupsInto(Tail(spans), gc[1], gc[2])
             ELSE GroupsInto(Tail(spans), groups, Append(current_group, span))

\* faulty variant of HardBreakGroups: the group is not closed at a newline
HardBreakGroupsMerged(spans) ==
    LET gs == GroupsInto(spans, <<>>, <<>>)
    IN  IF gs = <<>> THEN <<>> ELSE <<Concat(gs)>>

\* groups of wrap_with_hard_breaks
HardBreakGroups(spans) == GroupsInto(spans, <<>>, <<>>)

\* wrap_styled_spans for spans without a hard break
WrapPlainSpans(spans, width) ==
    IF spans = <<>> \/ PlainOf(spans) = <<>> THEN <<>>
    ELSE MapWrappedLines(PlainOf(spans), ByteStylesOf(spans), 0,
                         textwrap_wrap(PlainOf(spans), width))

\* the result loop of wrap_with_hard_breaks: an empty Line for a group
\* that wraps to nothing
WrapGroups(groups, width) ==
    Concat([g \in 1..Len(groups) |->
               LET wrapped == WrapPlainSpans(groups[g], width)
               IN  IF wrapped = <<>> THEN <<(<<>>)>> ELSE wrapped])

\* wrap_with_hard_breaks(spans, width)
wrap_with_hard_breaks(spans, width) == WrapGroups(HardBreakGroups(spans), width)

\* wrap_styled_spans(spans, width)
wrap_styled_spans(spans, width) ==
    IF spans = <<>> THEN <<>>
    ELSE IF HasHardBreak(spans) THEN wrap_with_hard_breaks(spans, width)
    ELSE WrapPlainSpans(spans, width)

(***************************************************************************)
(* layout.rs: flatten.  A RenderedBlock and a DocumentLine are records     *)
(* tagged by kind.                                                         *)
(***************************************************************************)
EmptyLine == [kind |-> "Empty"]
RuleLine == [kind |-> "Rule"]
TextLine(line) == [kind |-> "Text", line |-> line]
CodeLine(line) == [kind |-> "Code", line |-> line]

\* faulty variant of PushWrapped: nothing is pushed for an empty content
PushWrappedNoEmpty(wrapped_content) ==
    [k \in 1..Len(wrapped_content) |-> TextLine(wrapped_content[k])]

\* layout.rs 54-60 and 64-70: the lines pushed for the wrapped content
PushWrapped(wrapped_content) ==
    IF wrapped_content = <<>> THEN <<EmptyLine>>
    ELSE [k \in 1..Len(wrapped_content) |-> TextLine(wrapped_content[k])]

\* the Heading and Paragraph arms of flatten
FlattenText(content, width) == PushWrapped(wrap_styled_spans(content, width))

\* faulty variant of FlattenCodeBlock: the label line is pushed even for
\* an empty language
FlattenCodeBlockAlwaysLabel(language, highlighted_lines) ==
    <<CodeLine(<<[content |-> language, style |-> DefaultStyle]>>)>>
    \o [k \in 1..Len(highlighted_lines) |-> CodeLine(highlighted_lines[k])]

\* the CodeBlock arm of flatten: a label line naming the language when it
\* is not empty, then every highlighted line as it is
FlattenCodeBlock(language, highlighted_lines) ==
    (IF language # <<>>
     THEN <<CodeLine(<<[content |-> language, style |-> DefaultStyle]>>)>>
     ELSE <<>>)
    \o [k \in 1..Len(highlighted_lines) |-> CodeLine(highlighted_lines[k])]

\* faulty variant of FlattenBlock: the spacer loop runs over 0..=count
FlattenBlockInclusiveSpacer(block, width) ==
    CASE block.kind = "Heading" -> FlattenText(block.content, width)
      [] block.kind = "Paragraph" -> FlattenText(block.content, width)
      [] block.kind = "CodeBlock" ->
             FlattenCodeBlock(block.language, block.highlighted_lines)
      [] block.kind = "ThematicBreak" -> <<RuleLine>>
      [] block.kind = "Spacer" -> [k \in 1..(block.lines + 1) |-> EmptyLine]

\* the match on one block in flatten
FlattenBlock(block, width) ==
    CASE block.kind = "Heading" -> FlattenText(block.content, width)
      [] block.kind = "Paragraph" -> FlattenText(block.content, width)
      [] block.kind = "CodeBlock" ->
             FlattenCodeBlock(block.language, block.highlighted_lines)
      [] block.kind = "ThematicBreak" -> <<RuleLine>>
      [] block.kind = "Spacer" -> [k \in 1..block.lines |-> EmptyLine]

RECURSIVE FlattenFrom(_, _, _)
\* the for loop of flatten from block i on (i counted from 0)
FlattenFrom(blocks, i, width) ==
    IF i >= Len(blocks) THEN <<>>
    ELSE (IF i > 0 THEN <<EmptyLine>> ELSE <<>>)
         \o FlattenBlock(blocks[i + 1], width)
         \o FlattenFrom(blocks, i + 1, width)

\* faulty variant of MakeDocument: the height is taken before the last push
MakeDocumentStale(lines) ==
    [lines |-> lines, total_height |-> IF lines = <<>> THEN 0 ELSE Len(lines) - 1]

\* PreRenderedDocument { lines, total_height }
MakeDocument(lines) == [lines |-> lines, total_height |-> Len(lines)]

\* faulty variant of flatten: the width is clamped to at least 2
flatten_clamp_two(blocks, width) ==
    MakeDocument(FlattenFrom(blocks, 0, IF width > 2 THEN width ELSE 2))

\* faulty variant of flatten: the separator is pushed before every block,
\* the first included
flatten_separator_first(blocks, width) ==
    MakeDocument((IF blocks = <<>> THEN <<>> ELSE <<EmptyLine>>)
                 \o FlattenFrom(blocks, 0, IF width > 1 THEN width ELSE 1))

\* flatten(blocks, width)
flatten(blocks, width) ==
    MakeDocument(FlattenFrom(blocks, 0, IF width > 1 THEN width ELSE 1))

(***************************************************************************)
(* Blocks.                                                                 *)
(***************************************************************************)
\* StyledSpan { text, style }
StyledSpan(text, style) == [text |-> text, style |-> style]

Heading(level, content) == [kind |-> "Heading", level |-> level, content |-> content]
Paragraph(content) == [kind |-> "Paragraph", content |-> content]
CodeBlock(language, highlighted_lines) ==
    [kind |-> "CodeBlock", language |-> language,
     highlighted_lines |-> highlighted_lines]
ThematicBreak == [kind |-> "ThematicBreak"]
Spacer(count) == [kind |-> "Spacer", lines |-> count]

\* a highlighted line of one unstyled span
RawLine(text) == <<[content |-> text, style |-> DefaultStyle]>>

\* a code line wider than every column count of the model
LongCodeLine == RawLine([i \in 1..(MaxWidth + 2) |-> "a"])

(***************************************************************************)
(* parser.rs: styles.  A ratatui Style is [fg, bg, add_modifier,           *)
(* sub_modifier]; a colour that is not set is "None".                      *)
(***************************************************************************)
Modifier_BOLD == "BOLD"
Modifier_ITALIC == "ITALIC"
Modifier_CROSSED_OUT == "CROSSED_OUT"

\* Style::default()
Style_default ==
    [fg |-> "None", bg |-> "None", add_modifier |-> {}, sub_modifier |-> {}]

\* Style::fg, Style::bg, Style::add_modifier
with_fg(style, color) == [style EXCEPT !.fg = color]
with_bg(style, color) == [style EXCEPT !.bg = color]
add_modifier(style, modifier) ==
    [style EXCEPT !.sub_modifier = @ \ modifier,
                  !.add_modifier = @ \cup modifier]

\* Style::patch: what other sets overrides self
patch(self, other) ==
    [fg |-> IF other.fg # "None" THEN other.fg ELSE self.fg,
     bg |-> IF other.bg # "None" THEN other.bg ELSE self.bg,
     add_modifier |->
         (self.add_modifier \ other.sub_modifier) \cup other.add_modifier,
     sub_modifier |->
         (self.sub_modifier \ other.add_modifier) \cup other.sub_modifier]

\* default_heading_style(level)
default_heading_style(level) ==
    LET color == CASE level = 1 -> "LightCyan"
                   [] level = 2 -> "Green"
                   [] level = 3 -> "Yellow"
                   [] OTHER -> "White"
        modifier == IF level \in 1..3 THEN {Modifier_BOLD}
                    ELSE {Modifier_BOLD, Modifier_ITALIC}
    IN  add_modifier(with_fg(Style_default, color), modifier)

\* default_code_style()
default_code_style ==
    add_modifier(with_fg(with_bg(Style_default, "Indexed(236)"), "Indexed(252)"),
                 {Modifier_BOLD, Modifier_ITALIC})

RECURSIVE FoldPatch(_, _, _)
\* the fold of effective_style from entry i on
FoldPatch(acc, style_stack, i) ==
    IF i > Len(style_stack) THEN acc
    ELSE FoldPatch(patch(acc, style_stack[i]), style_stack, i + 1)

\* faulty variant of effective_style: the top entry alone
effective_style_top(style_stack) ==
    IF style_stack = <<>> THEN Style_default
    ELSE patch(Style_default, style_stack[Len(style_stack)])

\* effective_style(style_stack)
effective_style(style_stack) == FoldPatch(Style_default, style_stack, 1)

(***************************************************************************)
(* highlight.rs: Highlighter::highlight_code.  The colours syntect gives   *)
(* are not followed: the style of a highlighted span is the syntax and the *)
(* theme it was highlighted with.  How syntect divides a line into ranges  *)
(* and whether highlight_line fails on it are choices of the caller of the *)
(* model: cuts are the places after which a range ends, failing the lines  *)
(* highlight_line returns Err for.                                         *)
(***************************************************************************)
\* "base16-ocean.dark"
DEFAULT_THEME == "base16-ocean.dark"

\* carriage return
CR == "\r"

\* highlight.rs 55: the longest code that is highlighted, in bytes
MAX_HIGHLIGHT_BYTES == 512 * 1024

\* a run of MAX_HIGHLIGHT_BYTES letters a, kept as one element of a text
RUN == "a..a"

RECURSIVE str_len(_)
\* code.len(): the length of a text in bytes
str_len(text) ==
    IF text = <<>> THEN 0
    ELSE (IF Head(text) = RUN THEN MAX_HIGHLIGHT_BYTES ELSE 1) + str_len(Tail(text))

RECURSIVE LinesWithEndings(_)
\* syntect::util::LinesWithEndings: the lines of code, each with its ending
LinesWithEndings(code) ==
    IF code = <<>> THEN <<>>
    ELSE LET nl == IF contains_newline(code)
                   THEN CHOOSE i \in 1..Len(code) :
                            code[i] = NL /\ \A j \in 1..(i - 1) : code[j] # NL
                   ELSE Len(code)
         IN  <<SubSeq(code, 1, nl)>> \o LinesWithEndings(SubSeq(code, nl + 1, Len(code)))

\* faulty variant of trim_line_ending: a line feed alone is taken off
trim_newline_only(text) ==
    IF text # <<>> /\ text[Len(text)] = NL THEN SubSeq(text, 1, Len(text) - 1)
    ELSE text

RECURSIVE trim_line_ending(_)
\* text.trim_end_matches(['\r', '\n'])
trim_line_ending(text) ==
    IF text # <<>> /\ text[Len(text)] \in {CR, NL}
    THEN trim_line_ending(SubSeq(text, 1, Len(text) - 1))
    ELSE text

\* str::lines on one line with its ending: "\n" is taken off, and then one
\* "\r" before it; a last line that has no "\n" is left as it is
strip_line_terminator(line) ==
    IF line # <<>> /\ line[Len(line)] = NL
    THEN LET rest == SubSeq(line, 1, Len(line) - 1)
         IN  IF rest # <<>> /\ rest[Len(rest)] = CR
             THEN SubSeq(rest, 1, Len(rest) - 1)
             ELSE rest
    ELSE line

\* code.lines()
str_lines(code) ==
    [k \in 1..Len(LinesWithEndings(code)) |->
        strip_line_terminator(LinesWithEndings(code)[k])]

\* Span::raw(content)
Span_raw(content) == [content |-> content, style |-> Style_default]

\* highlight.rs 57-60 and 79-82: the code as unstyled lines
RawLines(code) == [k \in 1..Len(str_lines(code)) |-> <<Span_raw(str_lines(code)[k])>>]

\* the plain text syntax
PLAIN_TEXT == "Plain Text"

\* SyntaxSet::find_syntax_by_token on the default syntax set: the syntax a
\* token names, if any
find_syntax_by_token(token) ==
    IF token = <<"r">> THEN {"R"}
    ELSE IF token = <<"r", "s">> THEN {"Rust"}
    ELSE {}

\* faulty variant of find_syntax: the token is taken for the syntax
find_syntax_unchecked(language) ==
    IF find_syntax_by_token(language) = {} THEN "Unknown"
    ELSE CHOOSE syntax \in find_syntax_by_token(language) : TRUE

\* highlight.rs 63-69: the syntax for a language
find_syntax(language) ==
    IF language = <<>> THEN PLAIN_TEXT
    ELSE IF find_syntax_by_token(language) = {} THEN PLAIN_TEXT
    ELSE CHOOSE syntax \in find_syntax_by_token(language) : TRUE

\* ThemeSet::load_defaults: names of the themes syntect is built with
ThemeSet_load_defaults == {DEFAULT_THEME, "Solarized (dark)"}

\* highlight.rs 71-75: the theme of that name, or else the default theme,
\* if the theme set has it
find_theme(theme_set, theme_name) ==
    IF theme_name \in theme_set THEN {theme_name}
    ELSE IF DEFAULT_THEME \in theme_set THEN {DEFAULT_THEME}
    ELSE {}

\* the style of the spans of a line highlighted as syntax with theme
SyntectStyle(syntax, theme) == [syntax |-> syntax, theme |-> theme]

RECURSIVE RangesFrom(_, _, _)
\* HighlightLines::highlight_line: the ranges of a line, in order; a range
\* ends after each place in cuts and at the end of the line
RangesFrom(line, cuts, start) ==
    IF start > Len(line) THEN <<>>
    ELSE LET ends == {p \in cuts : p >= start /\ p < Len(line)}
             stop == IF ends = {} THEN Len(line)
                     ELSE CHOOSE p \in ends : \A q \in ends : p <= q
         IN  <<SubSeq(line, start, stop)>> \o RangesFrom(line, cuts, stop + 1)

\* highlight.rs 99-109: the spans of a highlighted line
HighlightedSpans(line, cuts, style) ==
    LET ranges_ == RangesFrom(line, cuts, 1)
        spans_ == [i \in 1..Len(ranges_) |->
                      [content |-> trim_line_ending(ranges_[i]), style |-> style]]
    IN  SelectSeq(spans_, LAMBDA span : span.content # <<>>)

\* Highlighter::highlight_code(code, language, theme_name) of a Highlighter
\* whose theme set is theme_set
highlight_code_with(theme_set, code, language, theme_name, failing, cuts) ==
    IF str_len(code) > MAX_HIGHLIGHT_BYTES THEN RawLines(code)
    ELSE IF find_theme(theme_set, theme_name) = {} THEN RawLines(code)
    ELSE LET syntax == find_syntax(language)
             theme == CHOOSE t \in find_theme(theme_set, theme_name) : TRUE
         IN  [k \in 1..Len(LinesWithEndings(code)) |->
                 IF k \in failing
                 THEN <<Span_raw(trim_line_ending(LinesWithEndings(code)[k]))>>
                 ELSE HighlightedSpans(LinesWithEndings(code)[k], cuts,
                                       SyntectStyle(syntax, theme))]

\* highlight_code of Highlighter::new(), when highlight_line fails on no
\* line and gives each line as one range
highlight_code(code, language, theme_name) ==
    highlight_code_with(ThemeSet_load_defaults, code, language, theme_name, {}, {})

(***************************************************************************)
(* parser.rs: parse.  The parser is the record                             *)
(* [state_stack, style_stack, current_spans, blocks, hl_calls, outcome]:   *)
(* hl_calls lists the calls made to the highlighter, outcome is "continue" *)
(* while the loop goes on, "break" when it stops early and "panic" when a  *)
(* debug assertion fails.                                                  *)
(***************************************************************************)
\* ParserState
TopLevel == [kind |-> "TopLevel"]
InHeading(level) == [kind |-> "InHeading", level |-> level]
InParagraph == [kind |-> "InParagraph"]
InCodeBlock(language, buffer) ==
    [kind |-> "InCodeBlock", language |-> language, buffer |-> buffer]
Skipping(depth) == [kind |-> "Skipping", depth |-> depth]

\* pulldown_cmark::Event
Start(tag) == [kind |-> "Start", tag |-> tag]
End(tag) == [kind |-> "End", tag |-> tag]
Text(text) == [kind |-> "Text", text |-> text]
Code(text) == [kind |-> "Code", text |-> text]
SoftBreak == [kind |-> "SoftBreak"]
HardBreak == [kind |-> "HardBreak"]
Rule == [kind |-> "Rule"]
Html == [kind |-> "Html"]

\* pulldown_cmark::Tag; List and Item stand for the tags parse has no arm for
TagHeading(level) == [name |-> "Heading", level |-> level]
TagCodeBlock(fenced, info) == [name |-> "CodeBlock", fenced |-> fenced, info |-> info]
Tag(name) == [name |-> name]

\* Vec::pop and slice::last
Pop(stack) == IF stack = <<>> THEN <<>> ELSE SubSeq(stack, 1, Len(stack) - 1)
Last(stack) == stack[Len(stack)]

\* str::split_whitespace().next().unwrap_or("")
first_token(s) ==
    LET starts == {i \in 1..Len(s) : s[i] \notin {SP, NL}}
    IN  IF starts = {} THEN <<>>
        ELSE LET a == CHOOSE i \in starts : \A j \in starts : i <= j
                 stops == {i \in a..Len(s) : s[i] \in {SP, NL}}
                 b == IF stops = {} THEN Len(s) + 1
                      ELSE CHOOSE i \in stops : \A j \in stops : i <= j
             IN  SubSeq(s, a, b - 1)

\* str::split(',').next().unwrap_or("")
before_comma(s) ==
    LET commas == {i \in 1..Len(s) : s[i] = ","}
    IN  IF commas = {} THEN s
        ELSE SubSeq(s, 1, (CHOOSE i \in commas : \A j \in commas : i <= j) - 1)

\* faulty variant of heading_level_to_u8: the position of the level, from 0
heading_level_index(level) ==
    CASE level = "H1" -> 0 [] level = "H2" -> 1 [] level = "H3" -> 2
      [] level = "H4" -> 3 [] level = "H5" -> 4 [] level = "H6" -> 5

\* heading_level_to_u8(level)
heading_level_to_u8(level) ==
    CASE level = "H1" -> 1 [] level = "H2" -> 2 [] level = "H3" -> 3
      [] level = "H4" -> 4 [] level = "H5" -> 5 [] level = "H6" -> 6

\* faulty variant of code_block_language: the first token, commas and all
code_block_language_token(tag) ==
    IF tag.fenced THEN first_token(tag.info) ELSE <<>>

\* parser.rs 307-324: the language of a code block
code_block_language(tag) ==
    IF tag.fenced THEN before_comma(first_token(tag.info)) ELSE <<>>

\* faulty variant of OnCodeBlockEvent: the text is put in front of the buffer
OnCodeBlockEventPrepend(p, ev) ==
    LET top == Last(p.state_stack)
    IN  IF ev.kind = "Text"
        THEN [p EXCEPT !.state_stack =
                 Append(Pop(p.state_stack),
                        InCodeBlock(top.language, ev.text \o top.buffer))]
        ELSE IF ev.kind = "End" /\ ev.tag.name = "CodeBlock"
        THEN [p EXCEPT
                 !.state_stack = Pop(p.state_stack),
                 !.hl_calls = Append(@, [code |-> top.buffer,
                                         language |-> top.language,
                                         theme_name |-> "base16-ocean.dark"]),
                 !.blocks = Append(@, CodeBlock(top.language,
                                highlight_code(top.buffer, top.language,
                                               "base16-ocean.dark")))]
        ELSE p

\* faulty variant of OnCodeBlockEvent: a break is put into the buffer as a
\* line feed
OnCodeBlockEventKeepsBreaks(p, ev) ==
    LET top == Last(p.state_stack)
    IN  IF ev.kind = "Text"
        THEN [p EXCEPT !.state_stack =
                 Append(Pop(p.state_stack),
                        InCodeBlock(top.language, top.buffer \o ev.text))]
        ELSE IF ev.kind \in {"SoftBreak", "HardBreak"}
        THEN [p EXCEPT !.state_stack =
                 Append(Pop(p.state_stack),
                        InCodeBlock(top.language, top.buffer \o <<NL>>))]
        ELSE IF ev.kind = "End" /\ ev.tag.name = "CodeBlock"
        THEN [p EXCEPT
                 !.state_stack = Pop(p.state_stack),
                 !.hl_calls = Append(@, [code |-> top.buffer,
                                         language |-> top.language,
                                         theme_name |-> "base16-ocean.dark"]),
                 !.blocks = Append(@, CodeBlock(top.language,
                                highlight_code(top.buffer, top.language,
                                               "base16-ocean.dark")))]
        ELSE p

\* parser.rs 131-160: an event while the top state is InCodeBlock
OnCodeBlockEvent(p, ev) ==
    LET top == Last(p.state_stack)
    IN  IF ev.kind = "Text"
        THEN [p EXCEPT !.state_stack =
                 Append(Pop(p.state_stack),
                        InCodeBlock(top.language, top.buffer \o ev.text))]
        ELSE IF ev.kind = "End" /\ ev.tag.name = "CodeBlock"
        THEN [p EXCEPT
                 !.state_stack = Pop(p.state_stack),
                 !.hl_calls = Append(@, [code |-> top.buffer,
                                         language |-> top.language,
                                         theme_name |-> "base16-ocean.dark"]),
                 !.blocks = Append(@, CodeBlock(top.language,
                                highlight_code(top.buffer, top.language,
                                               "base16-ocean.dark")))]
        ELSE p

\* faulty variant of OnSkipping: the nesting is not counted, the first end
\* event closes the skipped construct
OnSkippingFlat(p, ev) ==
    IF ev.kind = "End" THEN [p EXCEPT !.state_stack = Pop(p.state_stack)] ELSE p

\* faulty variant of OnSkipping: whatever is not an end event is counted as a
\* start
OnSkippingCountsAll(p, ev) ==
    LET depth == Last(p.state_stack).depth
    IN  IF ev.kind = "End"
        THEN IF depth = 0
             THEN [p EXCEPT !.state_stack = Pop(p.state_stack)]
             ELSE [p EXCEPT !.state_stack =
                      Append(Pop(p.state_stack), Skipping(depth - 1))]
        ELSE [p EXCEPT !.state_stack = Append(Pop(p.state_stack), Skipping(depth + 1))]

\* parser.rs 169-189: an event while the top state is Skipping
OnSkipping(p, ev) ==
    LET depth == Last(p.state_stack).depth
    IN  IF ev.kind = "Start"
        THEN [p EXCEPT !.state_stack = Append(Pop(p.state_stack), Skipping(depth + 1))]
        ELSE IF ev.kind = "End"
        THEN IF depth = 0
             THEN [p EXCEPT !.state_stack = Pop(p.state_stack)]
             ELSE [p EXCEPT !.state_stack =
                      Append(Pop(p.state_stack), Skipping(depth - 1))]
        ELSE p

\* faulty variant of OnHeadingStart: no InHeading state is pushed
OnHeadingStartNoState(p, level) ==
    [p EXCEPT !.style_stack = Append(@, default_heading_style(level)),
              !.current_spans = <<>>]

\* parser.rs 193-198
OnHeadingStart(p, level) ==
    [p EXCEPT !.style_stack = Append(@, default_heading_style(level)),
              !.current_spans = <<>>,
              !.state_stack = Append(@, InHeading(level))]

\* faulty variant of OnParagraphStart: the accumulator is not cleared
OnParagraphStartKeepsSpans(p) ==
    [p EXCEPT !.state_stack = Append(@, InParagraph)]

\* parser.rs 199-202
OnParagraphStart(p) ==
    [p EXCEPT !.current_spans = <<>>,
              !.state_stack = Append(@, InParagraph)]

\* faulty variant of OnHeadingEnd: the style is popped before the state is
\* looked at
OnHeadingEndPopsStyleFirst(p, debug_assertions) ==
    LET popped == Last(p.state_stack)
    IN  IF popped.kind = "InHeading"
        THEN [p EXCEPT !.state_stack = Pop(@),
                       !.style_stack = Pop(@),
                       !.blocks = Append(@, Heading(popped.level, p.current_spans)),
                       !.current_spans = <<>>]
        ELSE IF debug_assertions
        THEN [p EXCEPT !.state_stack = Pop(@), !.style_stack = Pop(@),
                       !.outcome = "panic"]
        ELSE [p EXCEPT !.state_stack = Pop(@),
                       !.style_stack = Pop(@),
                       !.blocks = Append(@, Heading(1, p.current_spans)),
                       !.current_spans = <<>>]

\* parser.rs 205-225: the debug assertion of the recovery path fails before
\* the block is pushed
OnHeadingEnd(p, debug_assertions) ==
    LET popped == Last(p.state_stack)
    IN  IF popped.kind = "InHeading"
        THEN [p EXCEPT !.state_stack = Pop(@),
                       !.style_stack = Pop(@),
                       !.blocks = Append(@, Heading(popped.level, p.current_spans)),
                       !.current_spans = <<>>]
        ELSE IF debug_assertions
        THEN [p EXCEPT !.state_stack = Pop(@), !.outcome = "panic"]
        ELSE [p EXCEPT !.state_stack = Pop(@),
                       !.blocks = Append(@, Heading(1, p.current_spans)),
                       !.current_spans = <<>>]

\* faulty variant of OnParagraphEnd: the state is not popped
OnParagraphEndKeepsState(p) ==
    [p EXCEPT !.blocks = Append(@, Paragraph(p.current_spans)),
              !.current_spans = <<>>]

\* parser.rs 226-230
OnParagraphEnd(p) ==
    [p EXCEPT !.state_stack = Pop(@),
              !.blocks = Append(@, Paragraph(p.current_spans)),
              !.current_spans = <<>>]

\* parser.rs 235-237 and 248-256: the style an inline start tag pushes
inline_style(name) ==
    CASE name = "Link" -> add_modifier(Style_default, {Modifier_ITALIC})
      [] name = "Emphasis" -> add_modifier(Style_default, {Modifier_ITALIC})
      [] name = "Strong" -> add_modifier(Style_default, {Modifier_BOLD})
      [] name = "Strikethrough" -> add_modifier(Style_default, {Modifier_CROSSED_OUT})

\* the tags whose start pushes a style and whose end pops one
InlineTags == {"Link", "Emphasis", "Strong", "Strikethrough"}

\* parser.rs 235-237 and 248-256
OnInlineStart(p, name) ==
    [p EXCEPT !.style_stack = Append(@, inline_style(name))]

\* faulty variant of OnInlineEnd: style_stack.pop().unwrap()
OnInlineEndUnwrap(p, debug_assertions) ==
    IF p.style_stack = <<>>
    THEN [p EXCEPT !.outcome = "panic"]
    ELSE [p EXCEPT !.style_stack = Pop(@)]

\* faulty variant of OnInlineEnd: nothing is popped
OnInlineEndKeeps(p, debug_assertions) ==
    IF p.style_stack = <<>> /\ debug_assertions
    THEN [p EXCEPT !.outcome = "panic"]
    ELSE p

\* parser.rs 238-241 and 259-265: the debug assertion comes before the pop
OnInlineEnd(p, debug_assertions) ==
    IF p.style_stack = <<>> /\ debug_assertions
    THEN [p EXCEPT !.outcome = "panic"]
    ELSE [p EXCEPT !.style_stack = Pop(@)]

\* parser.rs 268-274
OnText(p, text) ==
    [p EXCEPT !.current_spans =
         Append(@, StyledSpan(text, effective_style(p.style_stack)))]

\* faulty variant of OnCode: the code style is patched onto the effective
\* style
OnCodePatched(p, text) ==
    [p EXCEPT !.current_spans =
         Append(@, StyledSpan(text, patch(effective_style(p.style_stack),
                                          default_code_style)))]

\* parser.rs 277-282
OnCode(p, text) ==
    [p EXCEPT !.current_spans = Append(@, StyledSpan(text, default_code_style))]

\* faulty variant of OnSoftBreak: the span holds a line feed
OnSoftBreakNewline(p) ==
    [p EXCEPT !.current_spans =
         Append(@, StyledSpan(<<NL>>, effective_style(p.style_stack)))]

\* parser.rs 285-291
OnSoftBreak(p) ==
    [p EXCEPT !.current_spans =
         Append(@, StyledSpan(<<SP>>, effective_style(p.style_stack)))]

\* parser.rs 292-298
OnHardBreak(p) ==
    [p EXCEPT !.current_spans =
         Append(@, StyledSpan(<<NL>>, effective_style(p.style_stack)))]

\* parser.rs 301-303
OnRule(p) == [p EXCEPT !.blocks = Append(@, ThematicBreak)]

\* parser.rs 306-329
OnCodeBlockStart(p, tag) ==
    [p EXCEPT !.state_stack = Append(@, InCodeBlock(code_block_language(tag), <<>>))]

\* parser.rs 334-336
OnOtherStart(p) == [p EXCEPT !.state_stack = Append(@, Skipping(0))]

\* parser.rs 191-348: the match on the event in normal dispatch
OnNormalEvent(p, ev, debug_assertions) ==
    CASE ev.kind = "Start" ->
             (CASE ev.tag.name = "Heading" ->
                      OnHeadingStart(p, heading_level_to_u8(ev.tag.level))
                [] ev.tag.name = "Paragraph" -> OnParagraphStart(p)
                [] ev.tag.name \in InlineTags -> OnInlineStart(p, ev.tag.name)
                [] ev.tag.name = "Image" -> p
                [] ev.tag.name = "CodeBlock" -> OnCodeBlockStart(p, ev.tag)
                [] OTHER -> OnOtherStart(p))
      [] ev.kind = "End" ->
             (CASE ev.tag.name = "Heading" -> OnHeadingEnd(p, debug_assertions)
                [] ev.tag.name = "Paragraph" -> OnParagraphEnd(p)
                [] ev.tag.name \in InlineTags -> OnInlineEnd(p, debug_assertions)
                [] OTHER -> p)
      [] ev.kind = "Text" -> OnText(p, ev.text)
      [] ev.kind = "Code" -> OnCode(p, ev.text)
      [] ev.kind = "SoftBreak" -> OnSoftBreak(p)
      [] ev.kind = "HardBreak" -> OnHardBreak(p)
      [] ev.kind = "Rule" -> OnRule(p)
      [] OTHER -> p

\* the top state of a stack that is not empty has this kind
TopIs(state_stack, kind) ==
    state_stack # <<>> /\ Last(state_stack).kind = kind

\* the event is handled by the match of parser.rs 191-348
NormalDispatch(state_stack) ==
    /\ state_stack # <<>>
    /\ Last(state_stack).kind \notin {"InCodeBlock", "Skipping"}

\* faulty variant of ParseStep: an event that finds the state stack empty is
\* dropped and the loop goes on
ParseStepGoesOn(p, ev, debug_assertions) ==
    IF TopIs(p.state_stack, "InCodeBlock") THEN OnCodeBlockEvent(p, ev)
    ELSE IF p.state_stack = <<>> THEN p
    ELSE IF TopIs(p.state_stack, "Skipping") THEN OnSkipping(p, ev)
    ELSE OnNormalEvent(p, ev, debug_assertions)

\* parser.rs 127-349: the body of the loop for one event
ParseStep(p, ev, debug_assertions) ==
    IF TopIs(p.state_stack, "InCodeBlock") THEN OnCodeBlockEvent(p, ev)
    ELSE IF p.state_stack = <<>>
    THEN [p EXCEPT !.outcome = IF debug_assertions THEN "panic" ELSE "break"]
    ELSE IF TopIs(p.state_stack, "Skipping") THEN OnSkipping(p, ev)
    ELSE OnNormalEvent(p, ev, debug_assertions)

\* parser.rs 122-125: the parser before the first event
NewParser ==
    [state_stack |-> <<TopLevel>>, style_stack |-> <<>>,
     current_spans |-> <<>>, blocks |-> <<>>, hl_calls |-> <<>>,
     outcome |-> "continue"]

(***************************************************************************)
(* app.rs: App.                                                            *)
(***************************************************************************)
\* the bits of a usize: the width is scaled down, every length of the model
\* is below usize::MAX
UsizeBits == 6

RECURSIVE Pow2(_)
Pow2(n) == IF n = 0 THEN 1 ELSE 2 * Pow2(n - 1)

\* usize::MAX
usize_MAX == Pow2(UsizeBits) - 1

\* usize::saturating_add, usize::saturating_sub, usize::wrapping_add
saturating_add(a, b) == IF a + b > usize_MAX THEN usize_MAX ELSE a + b
saturating_sub(a, b) == IF a > b THEN a - b ELSE 0
wrapping_add(a, b) == (a + b) % (usize_MAX + 1)

\* App::max_scroll
max_scroll(doc, vh) == saturating_sub(doc.total_height, vh)

\* faulty variant of scroll_down: the sum wraps before it is clamped
scroll_down_wrapping(doc, vh, offset, n) ==
    IF wrapping_add(offset, n) < max_scroll(doc, vh)
    THEN wrapping_add(offset, n)
    ELSE max_scroll(doc, vh)

\* App::scroll_down(n): the new scroll_offset
scroll_down(doc, vh, offset, n) ==
    IF saturating_add(offset, n) < max_scroll(doc, vh)
    THEN saturating_add(offset, n)
    ELSE max_scroll(doc, vh)

\* App::scroll_up(n): the new scroll_offset
scroll_up(offset, n) == saturating_sub(offset, n)

\* faulty variant of visible_range: the end is not clamped to total_height
visible_range_unclamped(doc, vh, offset) == <<offset, offset + vh>>

\* App::visible_range: <<start, end>> of the half-open range
visible_range(doc, vh, offset) ==
    <<offset, IF offset + vh < doc.total_height THEN offset + vh
              ELSE doc.total_height>>

(***************************************************************************)
(* f64 arithmetic as scroll_percent uses it.  A positive f64 is            *)
(* [m, s]: m is its 53-bit significand, most significant bit first, and    *)
(* the value is m / 2^s; zero has the empty significand.  Every operation  *)
(* rounds to nearest, ties to even.                                        *)
(***************************************************************************)
RECURSIVE DivBits(_, _, _, _)
\* k more bits of the quotient r / b, appended to acc: <<bits, remainder>>
DivBits(r, b, k, acc) ==
    IF k = 0 THEN <<acc, r>>
    ELSE IF 2 * r >= b THEN DivBits(2 * r - b, b, k - 1, Append(acc, 1))
    ELSE DivBits(2 * r, b, k - 1, Append(acc, 0))

RECURSIVE IncFrom(_, _)
\* bits plus one, the carry entering at bit i
IncFrom(bits, i) ==
    IF i = 0 THEN <<1>> \o bits
    ELSE IF bits[i] = 1 THEN IncFrom([bits EXCEPT ![i] = 0], i - 1)
    ELSE [bits EXCEPT ![i] = 1]

\* bits with zeros in front, to length n
PadTo(bits, n) ==
    [k \in 1..n |-> IF k <= n - Len(bits) THEN 0 ELSE bits[k - (n - Len(bits))]]

RECURSIVE AddFrom(_, _, _, _, _)
\* the sum of x and y, of one length, from bit i down with a carry
AddFrom(x, y, i, carry, acc) ==
    IF i = 0 THEN (IF carry = 1 THEN <<1>> \o acc ELSE acc)
    ELSE AddFrom(x, y, i - 1, (x[i] + y[i] + carry) \div 2,
                 <<(x[i] + y[i] + carry) % 2>> \o acc)

AddBits(x, y) ==
    AddFrom(PadTo(x, IF Len(x) > Len(y) THEN Len(x) ELSE Len(y)),
            PadTo(y, IF Len(x) > Len(y) THEN Len(x) ELSE Len(y)),
            IF Len(x) > Len(y) THEN Len(x) ELSE Len(y), 0, <<>>)

\* bits cut to 53 bits, rounded on the bits dropped: <<significand, number
\* of bits dropped>>
Round53(bits) ==
    IF Len(bits) <= 53 THEN <<bits, 0>>
    ELSE LET keep == SubSeq(bits, 1, 53)
             half == bits[54] = 1
             more == \E i \in 55..Len(bits) : bits[i] = 1
             up == half /\ (more \/ keep[53] = 1)
             d == Len(bits) - 53
         IN  IF ~up THEN <<keep, d>>
             ELSE IF Len(IncFrom(keep, 53)) = 54
             THEN <<SubSeq(IncFrom(keep, 53), 1, 53), d + 1>>
             ELSE <<IncFrom(keep, 53), d>>

RECURSIVE BitsToNat(_, _)
BitsToNat(bits, acc) ==
    IF bits = <<>> THEN acc ELSE BitsToNat(Tail(bits), 2 * acc + Head(bits))

\* a as f64 / b as f64, for a usize a and a positive usize b
f64_div(a, b) ==
    IF a = 0 THEN [m |-> <<>>, s |-> 0]
    ELSE LET \* a * 2^up / (b * 2^down) lies in [1, 2)
             up == CHOOSE e \in 0..UsizeBits :
                       /\ a * Pow2(e) >= b
                       /\ \A f \in 0..(e - 1) : a * Pow2(f) < b
             down == CHOOSE e \in 0..UsizeBits :
                         /\ a * Pow2(up) < 2 * b * Pow2(e)
                         /\ \A f \in 0..(e - 1) : a * Pow2(up) >= 2 * b * Pow2(f)
             a2 == a * Pow2(up)
             b2 == b * Pow2(down)
             q == DivBits(a2 - b2, b2, 52, <<1>>)
             next == 2 * q[2] >= b2
             rest == IF next THEN 2 * q[2] - b2 ELSE 2 * q[2]
             round_up == next /\ (rest > 0 \/ q[1][53] = 1)
         IN  IF ~round_up THEN [m |-> q[1], s |-> 52 + up - down]
             ELSE IF Len(IncFrom(q[1], 53)) = 54
             THEN [m |-> SubSeq(IncFrom(q[1], 53), 1, 53), s |-> 52 + up - down - 1]
             ELSE [m |-> IncFrom(q[1], 53), s |-> 52 + up - down]

\* x * 100.0
f64_mul_100(x) ==
    IF x.m = <<>> THEN x
    ELSE LET product == AddBits(AddBits(x.m \o <<0, 0, 0, 0, 0, 0>>,
                                        x.m \o <<0, 0, 0, 0, 0>>),
                                x.m \o <<0, 0>>)
             rounded == Round53(product)
         IN  [m |-> rounded[1], s |-> x.s - rounded[2]]

\* x as u16: the fraction is dropped, the value saturates at u16::MAX
f64_as_u16(x) ==
    IF x.m = <<>> \/ x.s >= 53 THEN 0
    ELSE LET whole == IF x.s >= 0 THEN BitsToNat(SubSeq(x.m, 1, 53 - x.s), 0)
                      ELSE 65535
         IN  IF whole > 65535 THEN 65535 ELSE whole

\* App::scroll_percent
scroll_percent(doc, vh, offset) ==
    IF max_scroll(doc, vh) = 0 THEN 100
    ELSE f64_as_u16(f64_mul_100(f64_div(offset, max_scroll(doc, vh))))

\* half.max(1) of the half-page keys
HalfPage(vh) == IF vh \div 2 > 1 THEN vh \div 2 ELSE 1

\* the key events the event loop can deliver
Keys == {"j", "Down", "k", "Up", "d", "PageDown", "u", "PageUp",
         "g", "Home", "G", "End", "q", "Esc", "Ctrl+c", "c", "x"}

\* App::handle_key: the new <<scroll_offset, quit>>
handle_key(doc, vh, offset, q, key) ==
    CASE key \in {"j", "Down"} -> <<scroll_down(doc, vh, offset, 1), q>>
      [] key \in {"k", "Up"} -> <<scroll_up(offset, 1), q>>
      [] key \in {"d", "PageDown"} -> <<scroll_down(doc, vh, offset, HalfPage(vh)), q>>
      [] key \in {"u", "PageUp"} -> <<scroll_up(offset, HalfPage(vh)), q>>
      [] key \in {"g", "Home"} -> <<0, q>>
      [] key \in {"G", "End"} -> <<max_scroll(doc, vh), q>>
      [] key \in {"q", "Esc", "Ctrl+c"} -> <<offset, TRUE>>
      [] OTHER -> <<offset, q>>

(***************************************************************************)
(* State.                                                                  *)
(***************************************************************************)
VARIABLES
    \* main.rs: the parsed blocks, the terminal's size, the App fields and
    \* the place of run_event_loop in its loop body
    blocks, term_cols, term_rows,
    document, scroll_offset, viewport_height, quit, loop_pc,
    \* layout.rs: one call of wrap_styled_spans, its arguments, its locals
    \* and the locals of wrap_with_hard_breaks when it goes through it
    spans, width, pc, in_hard_breaks, groups, group_idx,
    plain, byte_styles, wrapped_lines, line_idx, cursor, ranges, wrapped,
    result, panicked,
    \* parser.rs: one call of parse: the events pulldown-cmark yields and
    \* how many of them the loop has taken, the locals of parse (its blocks
    \* are the variable blocks), the calls made to the highlighter, whether
    \* the build has debug assertions, and the parser after each event
    events, ev_idx, state_stack, style_stack, current_spans, hl_calls,
    parse_pc, debug_assertions, trace,
    \* highlight.rs: one call of highlight_code: the theme set of the
    \* Highlighter, the arguments, what syntect does with the lines (the
    \* lines highlight_line fails on, the places where it ends a range),
    \* the lines returned and the place of the call
    h_theme_set, h_code, h_language, h_theme_name, h_failing, h_cuts,
    h_lines, h_pc,
    \* main.rs: the place of main, the flag the panic hook reads, whether
    \* ratatui::init() has returned, the calls of ratatui::restore() made so
    \* far, the size of the file and the error main returns
    main_pc, TERMINAL_ACTIVE, terminal_initialised, restores, file_size,
    main_err

app_vars == <<blocks, term_cols, term_rows,
              document, scroll_offset, viewport_height, quit, loop_pc>>
wrap_vars == <<spans, width, pc, in_hard_breaks, groups, group_idx,
               plain, byte_styles, wrapped_lines, line_idx, cursor, ranges,
               wrapped, result, panicked>>
parse_vars == <<events, ev_idx, state_stack, style_stack, current_spans,
                hl_calls, parse_pc, debug_assertions, trace>>
hl_vars == <<h_theme_set, h_code, h_language, h_theme_name, h_failing, h_cuts,
             h_lines, h_pc>>
main_vars == <<main_pc, TERMINAL_ACTIVE, terminal_initialised, restores,
               file_size, main_err>>
vars == <<app_vars, wrap_vars, parse_vars, hl_vars, main_vars>>

\* main is not running
MainIdle ==
    /\ main_pc = "idle" /\ TERMINAL_ACTIVE = FALSE /\ terminal_initialised = FALSE
    /\ restores = 0 /\ file_size = 0 /\ main_err = "none"

\* no highlight_code call is being followed
HighlightIdle ==
    /\ h_theme_set = {} /\ h_code = <<>> /\ h_language = <<>>
    /\ h_theme_name = "" /\ h_failing = {} /\ h_cuts = {}
    /\ h_lines = <<>> /\ h_pc = "idle"

\* parse is not being followed
ParseIdle ==
    /\ events = <<>> /\ ev_idx = 0
    /\ state_stack = <<>> /\ style_stack = <<>> /\ current_spans = <<>>
    /\ hl_calls = <<>> /\ parse_pc = "idle" /\ debug_assertions = FALSE
    /\ trace = <<>>

\* no wrap_styled_spans call is being followed
WrapIdle ==
    /\ spans = <<>> /\ width = 1 /\ pc = "idle" /\ in_hard_breaks = FALSE
    /\ groups = <<>> /\ group_idx = 0
    /\ plain = <<>> /\ byte_styles = <<>> /\ wrapped_lines = <<>>
    /\ line_idx = 0 /\ cursor = 0 /\ ranges = <<>> /\ wrapped = <<>>
    /\ result = <<>> /\ panicked = FALSE

(***************************************************************************)
(* Inputs.                                                                 *)
(***************************************************************************)
BOLD == "bold"
ITALIC == "italic"

\* the characters of the paragraph texts
Chars == {"a", SP, HY, ID, NL}

\* every character sequence of at most n characters
CharSeqs(n) == UNION {[1..k -> Chars] : k \in 0..n}

\* the span lists over one character sequence: none, one span, or two
\* spans (either of which may be empty) of equal or different style
SpanListsOf(chs) ==
    {<<>>}
    \cup {<<StyledSpan(Encode(chs), BOLD)>>}
    \cup {<<StyledSpan(Encode(SubSeq(chs, 1, p)), BOLD),
            StyledSpan(Encode(SubSeq(chs, p + 1, Len(chs))), st)>> :
             p \in 0..Len(chs), st \in {BOLD, ITALIC}}

SpanLists == UNION {SpanListsOf(chs) : chs \in CharSeqs(MaxTextLen)}

Widths == 1..MaxWidth

(***************************************************************************)
(* SpecWrap: one call wrap_styled_spans(spans, width), followed through    *)
(* its loop over the wrapped lines and, for spans with a hard break,       *)
(* through the loop of wrap_with_hard_breaks over the groups.              *)
(***************************************************************************)
\* a word of LongWord columns after a one-letter word: the case where
\* overflowing by a column costs the wrap algorithm less than a second line
LongWord == 39

LongSpans == <<StyledSpan(<<"a", SP>> \o [i \in 1..LongWord |-> "a"], BOLD)>>

WrapInputs ==
    (SpanLists \X Widths) \cup {<<LongSpans, LongWord + 1>>}

\* flatten is laying out the one paragraph whose content is spans
LayingOutParagraph ==
    /\ blocks = <<Paragraph(spans)>> /\ term_cols = width /\ term_rows = 1
    /\ document = MakeDocument(<<>>)
    /\ scroll_offset = 0 /\ viewport_height = 0 /\ quit = FALSE
    /\ loop_pc = "flatten"

InitWrap ==
    /\ ParseIdle
    /\ HighlightIdle
    /\ MainIdle
    /\ \E input \in WrapInputs : spans = input[1] /\ width = input[2]
    /\ LayingOutParagraph
    /\ pc = "call" /\ in_hard_breaks = FALSE
    /\ groups = <<>> /\ group_idx = 0
    /\ plain = <<>> /\ byte_styles = <<>> /\ wrapped_lines = <<>>
    /\ line_idx = 0 /\ cursor = 0 /\ ranges = <<>> /\ wrapped = <<>>
    /\ result = <<>> /\ panicked = FALSE

\* the locals of wrap_styled_spans when it reaches its loop for sp
EnterLoop(sp) ==
    /\ plain' = PlainOf(sp)
    /\ byte_styles' = ByteStylesOf(sp)
    /\ wrapped_lines' = textwrap_wrap(PlainOf(sp), width)
    /\ line_idx' = 0 /\ cursor' = 0 /\ ranges' = <<>> /\ wrapped' = <<>>
    /\ pc' = "map"

\* layout.rs 100-102: an empty span list wraps to no line
EnterEmpty ==
    /\ pc = "call" /\ spans = <<>>
    /\ result' = <<>> /\ pc' = "returned"
    /\ UNCHANGED <<spans, width, in_hard_breaks, groups, group_idx, plain,
                   byte_styles, wrapped_lines, line_idx, cursor, ranges,
                   wrapped, panicked>>
    /\ UNCHANGED app_vars
    /\ UNCHANGED parse_vars
    /\ UNCHANGED hl_vars
    /\ UNCHANGED main_vars

\* layout.rs 105-107 and 206-232: spans with a hard break are cut into groups
EnterHardBreaks ==
    /\ pc = "call" /\ spans # <<>> /\ HasHardBreak(spans)
    /\ groups' = HardBreakGroups(spans) /\ group_idx' = 0
    /\ in_hard_breaks' = TRUE
    /\ result' = <<>> /\ pc' = "groups"
    /\ UNCHANGED <<spans, width, plain, byte_styles, wrapped_lines, line_idx,
                   cursor, ranges, wrapped, panicked>>
    /\ UNCHANGED app_vars
    /\ UNCHANGED parse_vars
    /\ UNCHANGED hl_vars
    /\ UNCHANGED main_vars

\* layout.rs 119-121: spans whose text is empty wrap to no line
EnterEmptyPlain ==
    /\ pc = "call" /\ spans # <<>> /\ ~HasHardBreak(spans)
    /\ PlainOf(spans) = <<>>
    /\ result' = <<>> /\ pc' = "returned"
    /\ UNCHANGED <<spans, width, in_hard_breaks, groups, group_idx, plain,
                   byte_styles, wrapped_lines, line_idx, cursor, ranges,
                   wrapped, panicked>>
    /\ UNCHANGED app_vars
    /\ UNCHANGED parse_vars
    /\ UNCHANGED hl_vars
    /\ UNCHANGED main_vars

\* layout.rs 109-130: plain, byte_styles and the wrapped lines are built
StartWrap ==
    /\ pc = "call" /\ spans # <<>> /\ ~HasHardBreak(spans)
    /\ PlainOf(spans) # <<>>
    /\ EnterLoop(spans)
    /\ UNCHANGED <<spans, width, in_hard_breaks, groups, group_idx, result,
                   panicked>>
    /\ UNCHANGED app_vars
    /\ UNCHANGED parse_vars
    /\ UNCHANGED hl_vars
    /\ UNCHANGED main_vars

\* layout.rs 132-157: one wrapped line is mapped back to styled spans
MapLine ==
    /\ pc = "map" /\ line_idx < Len(wrapped_lines)
    /\ LET m == MapWrappedLine(plain, byte_styles, cursor,
                               wrapped_lines[line_idx + 1])
       IN  IF SliceInBounds(plain, m.line_start, m.line_end)
           THEN /\ wrapped' = Append(wrapped, m.line)
                /\ ranges' = Append(ranges, <<m.line_start, m.line_end>>)
                /\ cursor' = m.line_end
                /\ line_idx' = line_idx + 1
                /\ UNCHANGED <<pc, panicked>>
           ELSE /\ panicked' = TRUE /\ pc' = "panicked"
                /\ UNCHANGED <<wrapped, ranges, cursor, line_idx>>
    /\ UNCHANGED <<spans, width, in_hard_breaks, groups, group_idx, plain,
                   byte_styles, wrapped_lines, result>>
    /\ UNCHANGED app_vars
    /\ UNCHANGED parse_vars
    /\ UNCHANGED hl_vars
    /\ UNCHANGED main_vars

\* layout.rs 159: the call made by flatten returns its lines
ReturnWrapped ==
    /\ pc = "map" /\ line_idx = Len(wrapped_lines) /\ ~in_hard_breaks
    /\ result' = wrapped /\ pc' = "returned"
    /\ UNCHANGED <<spans, width, in_hard_breaks, groups, group_idx, plain,
                   byte_styles, wrapped_lines, line_idx, cursor, ranges,
                   wrapped, panicked>>
    /\ UNCHANGED app_vars
    /\ UNCHANGED parse_vars
    /\ UNCHANGED hl_vars
    /\ UNCHANGED main_vars

\* layout.rs 236-238: a group that wraps to no line gives one empty Line
GroupEmpty ==
    /\ pc = "groups" /\ group_idx < Len(groups)
    /\ LET group == groups[group_idx + 1]
       IN  group = <<>> \/ PlainOf(group) = <<>>
    /\ result' = Append(result, <<>>)
    /\ group_idx' = group_idx + 1
    /\ UNCHANGED <<spans, width, pc, in_hard_breaks, groups, plain,
                   byte_styles, wrapped_lines, line_idx, cursor, ranges,
                   wrapped, panicked>>
    /\ UNCHANGED app_vars
    /\ UNCHANGED parse_vars
    /\ UNCHANGED hl_vars
    /\ UNCHANGED main_vars

\* layout.rs 236: wrap_styled_spans(group, width), a group has no hard break
GroupStartWrap ==
    /\ pc = "groups" /\ group_idx < Len(groups)
    /\ LET group == groups[group_idx + 1]
       IN  /\ group # <<>> /\ PlainOf(group) # <<>>
           /\ EnterLoop(group)
    /\ UNCHANGED <<spans, width, in_hard_breaks, groups, group_idx, result,
                   panicked>>
    /\ UNCHANGED app_vars
    /\ UNCHANGED parse_vars
    /\ UNCHANGED hl_vars
    /\ UNCHANGED main_vars

\* layout.rs 239-241: the lines of the group are added to the result
GroupReturn ==
    /\ pc = "map" /\ line_idx = Len(wrapped_lines) /\ in_hard_breaks
    /\ result' = result \o wrapped
    /\ group_idx' = group_idx + 1
    /\ pc' = "groups"
    /\ UNCHANGED <<spans, width, in_hard_breaks, groups, plain, byte_styles,
                   wrapped_lines, line_idx, cursor, ranges, wrapped, panicked>>
    /\ UNCHANGED app_vars
    /\ UNCHANGED parse_vars
    /\ UNCHANGED hl_vars
    /\ UNCHANGED main_vars

\* layout.rs 244: wrap_with_hard_breaks returns
GroupsDone ==
    /\ pc = "groups" /\ group_idx = Len(groups)
    /\ pc' = "returned"
    /\ UNCHANGED <<spans, width, in_hard_breaks, groups, group_idx, plain,
                   byte_styles, wrapped_lines, line_idx, cursor, ranges,
                   wrapped, result, panicked>>
    /\ UNCHANGED app_vars
    /\ UNCHANGED parse_vars
    /\ UNCHANGED hl_vars
    /\ UNCHANGED main_vars

\* layout.rs 63-70 and 83-87: flatten pushes the lines of the paragraph
\* and returns the document
PushLines ==
    /\ pc = "returned"
    /\ document' = MakeDocument(PushWrapped(result))
    /\ loop_pc' = "flattened"
    /\ pc' = "done"
    /\ UNCHANGED <<blocks, term_cols, term_rows, scroll_offset,
                   viewport_height, quit>>
    /\ UNCHANGED <<spans, width, in_hard_breaks, groups, group_idx, plain,
                   byte_styles, wrapped_lines, line_idx, cursor, ranges,
                   wrapped, result, panicked>>
    /\ UNCHANGED parse_vars
    /\ UNCHANGED hl_vars
    /\ UNCHANGED main_vars

NextWrap ==
    \/ EnterEmpty
    \/ EnterHardBreaks
    \/ EnterEmptyPlain
    \/ StartWrap
    \/ MapLine
    \/ ReturnWrapped
    \/ GroupEmpty
    \/ GroupStartWrap
    \/ GroupReturn
    \/ GroupsDone
    \/ PushLines

SpecWrap == InitWrap /\ [][NextWrap]_vars

\* the step-by-step call and the function flatten uses agree
WrapAgrees == pc = "done" => document = flatten(blocks, term_cols)

\* the blocks the layout is checked on
BlockPool ==
    { Heading(1, <<StyledSpan(<<"a", SP, "a", SP, "a">>, BOLD)>>),
      Paragraph(<<>>),
      Paragraph(<<StyledSpan(<<"a", "a">>, DefaultStyle),
                  StyledSpan(<<NL>>, DefaultStyle),
                  StyledSpan(<<"a", HY, "a">>, ITALIC)>>),
      CodeBlock(<<>>, <<LongCodeLine>>),
      CodeBlock(<<"r", "s">>, <<RawLine(<<"a", SP, "a">>), LongCodeLine>>),
      ThematicBreak,
      Spacer(0),
      Spacer(2) }

BlockSeqs == UNION {[1..n -> BlockPool] : n \in 0..MaxBlocks}

\* the blocks of the documents the event loop is run on
LoopPool ==
    { Heading(1, <<StyledSpan(<<"a", SP, "a", SP, "a">>, BOLD)>>),
      Paragraph(<<>>),
      CodeBlock(<<"r", "s">>, <<RawLine(<<"a", SP, "a">>), LongCodeLine>>) }

LoopBlockSeqs == UNION {[1..n -> LoopPool] : n \in 0..MaxBlocks}

(***************************************************************************)
(* SpecFlatten: one call flatten(blocks, cols), as main.rs 76 makes it.    *)
(***************************************************************************)
InitFlatten ==
    /\ ParseIdle
    /\ WrapIdle
    /\ HighlightIdle
    /\ MainIdle
    /\ blocks \in BlockSeqs
    /\ term_cols \in 0..MaxWidth
    /\ term_rows = 1
    /\ document = MakeDocument(<<>>)
    /\ scroll_offset = 0 /\ viewport_height = 0 /\ quit = FALSE
    /\ loop_pc = "flatten"

\* main.rs 76: layout::flatten(&blocks, cols)
Flatten ==
    /\ loop_pc = "flatten"
    /\ document' = flatten(blocks, term_cols)
    /\ loop_pc' = "flattened"
    /\ UNCHANGED <<blocks, term_cols, term_rows, scroll_offset,
                   viewport_height, quit>>
    /\ UNCHANGED wrap_vars
    /\ UNCHANGED parse_vars
    /\ UNCHANGED hl_vars
    /\ UNCHANGED main_vars

SpecFlatten == InitFlatten /\ [][Flatten]_vars

(***************************************************************************)
(* Spec: main.rs from the first flatten on, through run_event_loop.        *)
(***************************************************************************)
\* main.rs 69-88: the blocks are parsed, the document is laid out at the
\* terminal's column count, the App is created
Init ==
    /\ ParseIdle
    /\ WrapIdle
    /\ HighlightIdle
    /\ MainIdle
    /\ blocks \in LoopBlockSeqs
    /\ term_cols \in 0..MaxWidth
    /\ term_rows \in 0..MaxRows
    /\ document = flatten(blocks, term_cols)
    /\ scroll_offset = 0 /\ viewport_height = 0 /\ quit = FALSE
    /\ loop_pc = "size"

\* main.rs 116: the viewport height is read from the terminal
UpdateViewport ==
    /\ loop_pc = "size"
    /\ viewport_height' = IF term_rows > 1 THEN term_rows - 1 ELSE 0
    /\ loop_pc' = "draw"
    /\ UNCHANGED <<blocks, term_cols, term_rows, document, scroll_offset, quit>>
    /\ UNCHANGED wrap_vars
    /\ UNCHANGED parse_vars
    /\ UNCHANGED hl_vars
    /\ UNCHANGED main_vars

\* main.rs 119: the frame is drawn
Draw ==
    /\ loop_pc = "draw"
    /\ loop_pc' = "read"
    /\ UNCHANGED <<blocks, term_cols, term_rows, document, scroll_offset,
                   viewport_height, quit>>
    /\ UNCHANGED wrap_vars
    /\ UNCHANGED parse_vars
    /\ UNCHANGED hl_vars
    /\ UNCHANGED main_vars

\* faulty variant of KeyEvent: the loop does not look at the quit flag
KeyEventKeepsReading(key) ==
    /\ loop_pc = "read"
    /\ scroll_offset' =
           handle_key(document, viewport_height, scroll_offset, quit, key)[1]
    /\ quit' = handle_key(document, viewport_height, scroll_offset, quit, key)[2]
    /\ loop_pc' = "size"
    /\ UNCHANGED <<blocks, term_cols, term_rows, document, viewport_height>>
    /\ UNCHANGED wrap_vars
    /\ UNCHANGED parse_vars
    /\ UNCHANGED hl_vars
    /\ UNCHANGED main_vars

\* main.rs 125-127 and 141-143: a key event
KeyEvent(key) ==
    /\ loop_pc = "read"
    /\ LET handled == handle_key(document, viewport_height, scroll_offset, quit, key)
       IN  /\ scroll_offset' = handled[1]
           /\ quit' = handled[2]
           /\ loop_pc' = IF handled[2] THEN "exited" ELSE "size"
    /\ UNCHANGED <<blocks, term_cols, term_rows, document, viewport_height>>
    /\ UNCHANGED wrap_vars
    /\ UNCHANGED parse_vars
    /\ UNCHANGED hl_vars
    /\ UNCHANGED main_vars

\* faulty variant of ResizeEvent: the scroll offset is not clamped
ResizeEventNoClamp(cols) ==
    /\ loop_pc = "read"
    /\ term_cols' = cols
    /\ document' = flatten(blocks, cols)
    /\ term_rows' \in 0..MaxRows
    /\ loop_pc' = IF quit THEN "exited" ELSE "size"
    /\ UNCHANGED <<blocks, viewport_height, quit, scroll_offset>>
    /\ UNCHANGED wrap_vars
    /\ UNCHANGED parse_vars
    /\ UNCHANGED hl_vars
    /\ UNCHANGED main_vars

\* faulty variant of ResizeEvent: the document is laid out at the column
\* count the terminal had before
ResizeEventOldWidth(cols) ==
    /\ loop_pc = "read"
    /\ term_cols' = cols
    /\ document' = flatten(blocks, term_cols)
    /\ term_rows' \in 0..MaxRows
    /\ scroll_offset' = IF scroll_offset > max_scroll(document', viewport_height)
                        THEN max_scroll(document', viewport_height)
                        ELSE scroll_offset
    /\ loop_pc' = IF quit THEN "exited" ELSE "size"
    /\ UNCHANGED <<blocks, viewport_height, quit>>
    /\ UNCHANGED wrap_vars
    /\ UNCHANGED parse_vars
    /\ UNCHANGED hl_vars
    /\ UNCHANGED main_vars

\* main.rs 128-136 and 141-143: the terminal was resized to cols columns and
\* any number of rows, which the handler does not look at
ResizeEvent(cols) ==
    /\ loop_pc = "read"
    /\ term_cols' = cols
    /\ document' = flatten(blocks, cols)
    /\ term_rows' \in 0..MaxRows
    /\ scroll_offset' = IF scroll_offset > max_scroll(document', viewport_height)
                        THEN max_scroll(document', viewport_height)
                        ELSE scroll_offset
    /\ loop_pc' = IF quit THEN "exited" ELSE "size"
    /\ UNCHANGED <<blocks, viewport_height, quit>>
    /\ UNCHANGED wrap_vars
    /\ UNCHANGED parse_vars
    /\ UNCHANGED hl_vars
    /\ UNCHANGED main_vars

\* main.rs 137-139: mouse, focus and paste events are ignored
OtherEvent ==
    /\ loop_pc = "read"
    /\ loop_pc' = IF quit THEN "exited" ELSE "size"
    /\ UNCHANGED <<blocks, term_cols, term_rows, document, scroll_offset,
                   viewport_height, quit>>
    /\ UNCHANGED wrap_vars
    /\ UNCHANGED parse_vars
    /\ UNCHANGED hl_vars
    /\ UNCHANGED main_vars

Next ==
    \/ UpdateViewport
    \/ Draw
    \/ \E key \in Keys : KeyEvent(key)
    \/ \E cols \in 0..MaxWidth : ResizeEvent(cols)
    \/ OtherEvent

Spec == Init /\ [][Next]_vars

(***************************************************************************)
(* SpecMain: main from its first statement to its return or to a panic,    *)
(* with run_event_loop running inside it and the reads of the terminal     *)
(* free to fail.                                                           *)
(***************************************************************************)
\* main.rs 52
MAX_FILE_BYTES == 100 * 1024 * 1024

\* longest block sequence parse returns to main here
MaxMainBlocks == 1

\* the sizes of the files main is run on
FileSizes == {0, MAX_FILE_BYTES, MAX_FILE_BYTES + 1}

\* the blocks parse returns for the files main is run on
MainBlockSeqs == UNION {[1..n -> LoopPool] : n \in 0..MaxMainBlocks}

InitMain ==
    /\ ParseIdle
    /\ WrapIdle
    /\ HighlightIdle
    /\ blocks = <<>>
    /\ term_cols = 0 /\ term_rows = 0
    /\ document = MakeDocument(<<>>)
    /\ scroll_offset = 0 /\ viewport_height = 0 /\ quit = FALSE
    /\ loop_pc = "idle"
    /\ main_pc = "install"
    /\ TERMINAL_ACTIVE = FALSE /\ terminal_initialised = FALSE /\ restores = 0
    /\ file_size \in FileSizes
    /\ main_err = "none"

\* a `?` or `return Err(..)` of main: main returns the error
MainReturnsErr(err) ==
    /\ main_pc' = "returned" /\ main_err' = err
    /\ UNCHANGED <<TERMINAL_ACTIVE, terminal_initialised, restores, file_size>>
    /\ UNCHANGED app_vars

\* main goes on to its next statement
MainGoesTo(next_pc) ==
    /\ main_pc' = next_pc
    /\ UNCHANGED <<TERMINAL_ACTIVE, terminal_initialised, restores, file_size,
                   main_err>>

\* main.rs 32-47: color_eyre::install()?, the panic hook is chained, the
\* command line is parsed
MainInstall ==
    /\ main_pc = "install"
    /\ \/ MainGoesTo("metadata") /\ UNCHANGED app_vars
       \/ MainReturnsErr("install")
    /\ UNCHANGED <<wrap_vars, parse_vars, hl_vars>>

\* main.rs 52-61: fs::metadata(&cli.file)?.len() and the size guard
MainMetadata ==
    /\ main_pc = "metadata"
    /\ \/ MainReturnsErr("metadata")
       \/ file_size > MAX_FILE_BYTES /\ MainReturnsErr("too_large")
       \/ file_size <= MAX_FILE_BYTES /\ MainGoesTo("read") /\ UNCHANGED app_vars
    /\ UNCHANGED <<wrap_vars, parse_vars, hl_vars>>

\* main.rs 64: fs::read_to_string(&cli.file)?
MainRead ==
    /\ main_pc = "read"
    /\ \/ MainGoesTo("parse") /\ UNCHANGED app_vars
       \/ MainReturnsErr("read")
    /\ UNCHANGED <<wrap_vars, parse_vars, hl_vars>>

\* main.rs 67-70: the highlighter is loaded and the source is parsed
MainParse ==
    /\ main_pc = "parse"
    /\ blocks' \in MainBlockSeqs
    /\ MainGoesTo("size")
    /\ UNCHANGED <<term_cols, term_rows, document, scroll_offset,
                   viewport_height, quit, loop_pc>>
    /\ UNCHANGED <<wrap_vars, parse_vars, hl_vars>>

\* main.rs 73: ratatui::crossterm::terminal::size()?
MainSize ==
    /\ main_pc = "size"
    /\ \/ /\ term_cols' \in 0..MaxWidth /\ term_rows' \in 0..MaxRows
          /\ MainGoesTo("flatten")
          /\ UNCHANGED <<blocks, document, scroll_offset, viewport_height,
                         quit, loop_pc>>
       \/ MainReturnsErr("size")
    /\ UNCHANGED <<wrap_vars, parse_vars, hl_vars>>

\* main.rs 76-88: the document is laid out and the App is created
MainFlatten ==
    /\ main_pc = "flatten"
    /\ document' = flatten(blocks, term_cols)
    /\ scroll_offset' = 0 /\ viewport_height' = 0 /\ quit' = FALSE
    /\ MainGoesTo("init")
    /\ UNCHANGED <<blocks, term_cols, term_rows, loop_pc>>
    /\ UNCHANGED <<wrap_vars, parse_vars, hl_vars>>

\* main.rs 92: ratatui::init() returns
MainInit ==
    /\ main_pc = "init"
    /\ terminal_initialised' = TRUE
    /\ main_pc' = "store"
    /\ UNCHANGED <<TERMINAL_ACTIVE, restores, file_size, main_err>>
    /\ UNCHANGED <<app_vars, wrap_vars, parse_vars, hl_vars>>

\* main.rs 93 and 96: TERMINAL_ACTIVE is set and run_event_loop is entered
MainStore ==
    /\ main_pc = "store"
    /\ TERMINAL_ACTIVE' = TRUE
    /\ main_pc' = "loop" /\ loop_pc' = "size"
    /\ UNCHANGED <<terminal_initialised, restores, file_size, main_err>>
    /\ UNCHANGED <<blocks, term_cols, term_rows, document, scroll_offset,
                   viewport_height, quit>>
    /\ UNCHANGED <<wrap_vars, parse_vars, hl_vars>>

\* main.rs 114-144: a step of run_event_loop
MainLoopStep == main_pc = "loop" /\ Next

\* main.rs 116, 119 and 122: terminal.size()?, terminal.draw(..)? or
\* event::read()? fails and run_event_loop returns the error
IoError ==
    /\ main_pc = "loop" /\ loop_pc \in {"size", "draw", "read"}
    /\ loop_pc' = "failed"
    /\ UNCHANGED <<blocks, term_cols, term_rows, document, scroll_offset,
                   viewport_height, quit>>
    /\ UNCHANGED <<wrap_vars, parse_vars, hl_vars, main_vars>>

\* faulty variant of MainLoopReturns: an error of the loop is returned with
\* `?`, before the terminal is restored
MainLoopPropagates ==
    /\ main_pc = "loop" /\ loop_pc \in {"exited", "failed"}
    /\ main_pc' = IF loop_pc = "failed" THEN "returned" ELSE "restore"
    /\ main_err' = IF loop_pc = "failed" THEN "loop" ELSE "none"
    /\ UNCHANGED <<TERMINAL_ACTIVE, terminal_initialised, restores, file_size>>
    /\ UNCHANGED <<app_vars, wrap_vars, parse_vars, hl_vars>>

\* main.rs 96: run_event_loop returns, Ok(()) after a quit or the error
MainLoopReturns ==
    /\ main_pc = "loop" /\ loop_pc \in {"exited", "failed"}
    /\ main_pc' = "restore"
    /\ main_err' = IF loop_pc = "failed" THEN "loop" ELSE "none"
    /\ UNCHANGED <<TERMINAL_ACTIVE, terminal_initialised, restores, file_size>>
    /\ UNCHANGED <<app_vars, wrap_vars, parse_vars, hl_vars>>

\* main.rs 99-101: ratatui::restore() and main returns the loop's result
MainRestore ==
    /\ main_pc = "restore"
    /\ restores' = restores + 1
    /\ main_pc' = "returned"
    /\ UNCHANGED <<TERMINAL_ACTIVE, terminal_initialised, file_size, main_err>>
    /\ UNCHANGED <<app_vars, wrap_vars, parse_vars, hl_vars>>

\* the places where code called by main can panic: the parser, the layout,
\* ratatui::init(), and in the loop the renderer and the layout on a resize
CanPanic ==
    \/ main_pc \in {"parse", "flatten", "init"}
    \/ main_pc = "loop" /\ loop_pc \in {"draw", "read"}

\* main.rs 38-44: a panic runs the hook, which restores the terminal when
\* TERMINAL_ACTIVE is set; main does not go on
MainPanic ==
    /\ CanPanic
    /\ restores' = IF TERMINAL_ACTIVE THEN restores + 1 ELSE restores
    /\ main_pc' = "panicked"
    /\ UNCHANGED <<TERMINAL_ACTIVE, terminal_initialised, file_size, main_err>>
    /\ UNCHANGED <<app_vars, wrap_vars, parse_vars, hl_vars>>

NextMain ==
    \/ MainInstall
    \/ MainMetadata
    \/ MainRead
    \/ MainParse
    \/ MainSize
    \/ MainFlatten
    \/ MainInit
    \/ MainStore
    \/ MainLoopStep
    \/ IoError
    \/ MainLoopReturns
    \/ MainRestore
    \/ MainPanic

\* main runs its statements one after the other: once run_event_loop has
\* returned, main goes on to restore the terminal and to return
SpecMain ==
    /\ InitMain /\ [][NextMain]_vars
    /\ WF_vars(MainLoopReturns) /\ WF_vars(MainRestore)

(***************************************************************************)
(* SpecFallback: the loop of wrap_styled_spans over wrapped lines that the *)
(* line breaker is free to return, verbatim slices of plain or not.        *)
(***************************************************************************)
\* most lines the line breaker returns here
MaxReturnedLines == 2
\* longest line, in characters, the line breaker returns here
MaxReturnedLen == 2

\* the texts without a hard break
FlatTexts(n) == UNION {[1..k -> Chars \ {NL}] : k \in 0..n}

FallbackSpans ==
    {<<StyledSpan(Encode(chs), BOLD)>> : chs \in FlatTexts(MaxTextLen) \ {<<>>}}

ReturnedLines ==
    UNION {[1..n -> {Encode(chs) : chs \in FlatTexts(MaxReturnedLen)}] :
              n \in 0..MaxReturnedLines}

InitFallback ==
    /\ ParseIdle
    /\ HighlightIdle
    /\ MainIdle
    /\ spans \in FallbackSpans
    /\ width \in Widths
    /\ LayingOutParagraph
    /\ pc = "map" /\ in_hard_breaks = FALSE
    /\ groups = <<>> /\ group_idx = 0
    /\ plain = PlainOf(spans) /\ byte_styles = ByteStylesOf(spans)
    /\ wrapped_lines \in ReturnedLines
    /\ line_idx = 0 /\ cursor = 0 /\ ranges = <<>> /\ wrapped = <<>>
    /\ result = <<>> /\ panicked = FALSE

NextFallback == MapLine \/ ReturnWrapped \/ PushLines

SpecFallback == InitFallback /\ [][NextFallback]_vars

(***************************************************************************)
(* SpecApp: the methods of one App called in any order on a document and   *)
(* a viewport height that stay as App::new and the caller set them, the    *)
(* way app_tests.rs makes and drives an App.                               *)
(***************************************************************************)
\* most lines of the document
MaxLines == 50
\* largest viewport height
MaxViewport == 3
\* largest n of scroll_down(n) and scroll_up(n) short of usize::MAX
MaxStep == 3

\* make_doc(line_count)
make_doc(line_count) == MakeDocument([k \in 1..line_count |-> EmptyLine])

\* the arguments scroll_down and scroll_up are called with
ScrollAmounts == 0..MaxStep \cup {usize_MAX}

\* make_app(doc_lines, viewport)
InitApp ==
    /\ ParseIdle
    /\ WrapIdle
    /\ HighlightIdle
    /\ MainIdle
    /\ blocks = <<>>
    /\ term_cols = 0 /\ term_rows = 0
    /\ \E doc_lines \in 0..MaxLines : document = make_doc(doc_lines)
    /\ viewport_height \in 0..MaxViewport
    /\ scroll_offset = 0 /\ quit = FALSE
    /\ loop_pc = "app"

\* app.handle_key(key)
AppHandleKey(key) ==
    /\ loop_pc = "app"
    /\ scroll_offset' =
           handle_key(document, viewport_height, scroll_offset, quit, key)[1]
    /\ quit' = handle_key(document, viewport_height, scroll_offset, quit, key)[2]
    /\ UNCHANGED <<blocks, term_cols, term_rows, document, viewport_height, loop_pc>>
    /\ UNCHANGED wrap_vars
    /\ UNCHANGED parse_vars
    /\ UNCHANGED hl_vars
    /\ UNCHANGED main_vars

\* app.scroll_down(n)
AppScrollDown(n) ==
    /\ loop_pc = "app"
    /\ scroll_offset' = scroll_down(document, viewport_height, scroll_offset, n)
    /\ UNCHANGED <<blocks, term_cols, term_rows, document, viewport_height,
                   quit, loop_pc>>
    /\ UNCHANGED wrap_vars
    /\ UNCHANGED parse_vars
    /\ UNCHANGED hl_vars
    /\ UNCHANGED main_vars

\* app.scroll_up(n)
AppScrollUp(n) ==
    /\ loop_pc = "app"
    /\ scroll_offset' = scroll_up(scroll_offset, n)
    /\ UNCHANGED <<blocks, term_cols, term_rows, document, viewport_height,
                   quit, loop_pc>>
    /\ UNCHANGED wrap_vars
    /\ UNCHANGED parse_vars
    /\ UNCHANGED hl_vars
    /\ UNCHANGED main_vars

NextApp ==
    \/ \E key \in Keys : AppHandleKey(key)
    \/ \E n \in ScrollAmounts : AppScrollDown(n)
    \/ \E n \in ScrollAmounts : AppScrollUp(n)

SpecApp == InitApp /\ [][NextApp]_vars

(***************************************************************************)
(* SpecParse: one call of parse, event by event.  The events are a stream  *)
(* pulldown-cmark can yield (well nested) or any other sequence of events. *)
(***************************************************************************)
\* deepest nesting of inline tags in a heading or paragraph
MaxInlineNest == 2
\* deepest nesting inside a construct parse has no arm for
MaxSkipNest == 2
\* most events between the start and the end of a code block
MaxCodeEvents == 2
\* most constructs of a stream made of whole constructs
MaxConstructs == 2
\* longest stream made of arbitrary events
MaxAnyLen == 2
\* longest fence info string
MaxInfoLen == 3

\* the events of a construct: its start, its content, its end
Wrap(tag, body) == <<Start(tag)>> \o body \o <<End(tag)>>

\* pulldown_cmark::HeadingLevel
HeadingLevels == {"H1", "H2", "H3", "H4", "H5", "H6"}

InlineLeaves == {Text(<<"a">>), Code(<<"a">>), SoftBreak, HardBreak}

InlineWrappers == {"Emphasis", "Strong", "Strikethrough", "Link", "Image"}

RECURSIVE InlineNodes(_)
\* the inline content nested at most d deep
InlineNodes(d) ==
    IF d = 0 THEN {<<leaf>> : leaf \in InlineLeaves}
    ELSE InlineNodes(d - 1)
         \cup {Wrap(Tag(name), body) :
                  name \in InlineWrappers, body \in InlineNodes(d - 1)}

\* the content of a heading or paragraph: nothing, one inline node, or two
\* nodes of one nesting level side by side
InlineBodies ==
    {<<>>} \cup InlineNodes(MaxInlineNest)
    \cup {a \o b : a \in InlineNodes(1), b \in InlineNodes(1)}

TextBlockTags == {TagHeading(level) : level \in HeadingLevels} \cup {Tag("Paragraph")}

\* headings and paragraphs
TextBlockStreams == {Wrap(tag, body) : tag \in TextBlockTags, body \in InlineBodies}

CodeBlockTags ==
    {TagCodeBlock(TRUE, <<>>), TagCodeBlock(TRUE, <<"r", "s">>),
     TagCodeBlock(FALSE, <<>>)}

\* what can arrive inside a code block: its text, and events it ignores
CodeBlockEvents ==
    {Text(<<"a", NL>>), Text(<<"b">>), SoftBreak, Code(<<"a">>), Rule,
     Start(Tag("Emphasis")), End(Tag("Paragraph"))}

CodeBlockStreams ==
    {Wrap(tag, body) :
        tag \in CodeBlockTags,
        body \in UNION {[1..k -> CodeBlockEvents] : k \in 0..MaxCodeEvents}}

SkippedLeaves == {Text(<<"a">>), Code(<<"a">>), HardBreak, Rule}

SkippedWrappers ==
    {Tag("Item"), Tag("List"), Tag("Paragraph"), Tag("Emphasis"),
     TagHeading("H2"), TagCodeBlock(TRUE, <<"r", "s">>)}

RECURSIVE SkippedNodes(_)
\* what a list can hold, nested at most d deep
SkippedNodes(d) ==
    IF d = 0 THEN {<<leaf>> : leaf \in SkippedLeaves}
    ELSE SkippedNodes(d - 1)
         \cup {Wrap(tag, body) :
                  tag \in SkippedWrappers,
                  body \in SkippedNodes(d - 1) \cup {<<>>}}

\* lists: constructs parse skips
SkippedStreams ==
    {Wrap(Tag("List"), body) : body \in SkippedNodes(MaxSkipNest) \cup {<<>>}}

\* the fence info strings of up to MaxInfoLen characters
InfoStrings == UNION {[1..n -> {"r", ",", SP}] : n \in 0..MaxInfoLen}

\* code blocks of one line: fenced with every info string, and indented
InfoStreams ==
    {Wrap(TagCodeBlock(TRUE, info), <<Text(<<"a">>)>>) : info \in InfoStrings}
    \cup {Wrap(TagCodeBlock(FALSE, info), <<Text(<<"a">>)>>) : info \in {<<>>}}

\* the constructs the longer streams are made of, and a heading end that
\* has no start
SmallPool ==
    { <<Rule>>,
      <<End(TagHeading("H1"))>>,
      <<Text(<<"a">>)>>,
      Wrap(Tag("Paragraph"), <<Text(<<"a">>)>>),
      Wrap(Tag("Paragraph"),
           Wrap(Tag("Strong"), <<Text(<<"a">>)>>) \o <<Text(<<"a">>)>>),
      Wrap(TagHeading("H2"), Wrap(Tag("Emphasis"), <<Text(<<"a">>)>>)),
      Wrap(Tag("Emphasis"), <<Text(<<"a">>)>>),
      Wrap(TagCodeBlock(TRUE, <<"r", "s">>),
           <<Text(<<"a", NL>>), Text(<<"b">>)>>),
      Wrap(Tag("List"),
           Wrap(Tag("Item"), Wrap(Tag("Paragraph"), <<Text(<<"a">>)>>))),
      Wrap(Tag("List"),
           Wrap(Tag("Item"),
                Wrap(Tag("Emphasis"), <<Text(<<"a">>)>>) \o <<Text(<<"a">>)>>)
           \o Wrap(Tag("Item"), Wrap(Tag("List"), <<Rule>>))) }

\* streams made of the constructs of the pool
ConstructStreams ==
    {Concat(cs) : cs \in UNION {[1..k -> SmallPool] : k \in 0..MaxConstructs}}

\* a stream with one of its events lost
Damaged(stream) ==
    {SubSeq(stream, 1, i - 1) \o SubSeq(stream, i + 1, Len(stream)) :
        i \in 1..Len(stream)}

AnyEvents ==
    {Start(tag) : tag \in {TagHeading("H1"), TagHeading("H4"), Tag("Paragraph"),
                           Tag("Emphasis"), Tag("Strong"), Tag("Strikethrough"),
                           Tag("Link"), Tag("Image"), Tag("List"),
                           TagCodeBlock(TRUE, <<"r", "s">>)}}
    \cup {End(tag) : tag \in {TagHeading("H1"), Tag("Paragraph"), Tag("Emphasis"),
                             Tag("Strong"), Tag("Strikethrough"), Tag("Link"),
                             Tag("Image"), Tag("List"), Tag("CodeBlock")}}
    \cup {Text(<<"a">>), Code(<<"a">>), SoftBreak, HardBreak, Rule, Html}

\* the short streams of arbitrary events
AnyStreams == UNION {[1..k -> AnyEvents] : k \in 0..MaxAnyLen}

\* well-nested streams pulldown-cmark does not yield: a code block that holds
\* a paragraph, heading, emphasis or list, itself holding a text or a code
\* block; a heading or paragraph that holds a heading or paragraph
NestedStreams ==
    {Wrap(TagCodeBlock(TRUE, <<"r">>), <<Text(<<"a">>)>> \o Wrap(tag, body)) :
        tag \in {Tag("Paragraph"), TagHeading("H1"), Tag("Emphasis"), Tag("List")},
        body \in {<<Text(<<"b">>)>>,
                  Wrap(TagCodeBlock(FALSE, <<>>), <<Text(<<"b">>)>>)}}
    \cup {Wrap(tag, <<Text(<<"a">>)>> \o Wrap(inner, <<Text(<<"b">>)>>)
                    \o <<Text(<<"c">>)>>) \o tail :
             tag \in {Tag("Paragraph"), TagHeading("H1")},
             inner \in {Tag("Paragraph"), TagHeading("H3")},
             tail \in {<<>>, <<Rule>>, Wrap(Tag("Paragraph"), <<Text(<<"d">>)>>)}}

\* the event streams parse is followed on
Streams ==
    TextBlockStreams \cup CodeBlockStreams \cup SkippedStreams \cup ConstructStreams
    \cup UNION {Damaged(a \o b) : a \in SmallPool, b \in SmallPool \cup {<<>>}}
    \cup AnyStreams \cup InfoStreams \cup NestedStreams

\* the locals of parse as one record
ParserNow ==
    [state_stack |-> state_stack, style_stack |-> style_stack,
     current_spans |-> current_spans, blocks |-> blocks,
     hl_calls |-> hl_calls, outcome |-> "continue"]

\* parser.rs 117-125: parse is entered
InitParse ==
    /\ WrapIdle
    /\ HighlightIdle
    /\ MainIdle
    /\ events \in Streams
    /\ debug_assertions \in BOOLEAN
    /\ ev_idx = 0
    /\ state_stack = NewParser.state_stack
    /\ style_stack = NewParser.style_stack
    /\ current_spans = NewParser.current_spans
    /\ blocks = NewParser.blocks
    /\ hl_calls = NewParser.hl_calls
    /\ trace = <<NewParser>>
    /\ parse_pc = "loop"
    /\ term_cols = 1 /\ term_rows = 1
    /\ document = MakeDocument(<<>>)
    /\ scroll_offset = 0 /\ viewport_height = 0 /\ quit = FALSE
    /\ loop_pc = "parse"

\* parser.rs 127-349: the loop takes the next event; it goes on, stops
\* early, or a debug assertion fails
ParseEvent ==
    /\ parse_pc = "loop" /\ ev_idx < Len(events)
    /\ LET q == ParseStep(ParserNow, events[ev_idx + 1], debug_assertions)
       IN  /\ state_stack' = q.state_stack
           /\ style_stack' = q.style_stack
           /\ current_spans' = q.current_spans
           /\ blocks' = q.blocks
           /\ hl_calls' = q.hl_calls
           /\ trace' = Append(trace, q)
           /\ parse_pc' = CASE q.outcome = "continue" -> "loop"
                            [] q.outcome = "break" -> "returned"
                            [] q.outcome = "panic" -> "panicked"
    /\ ev_idx' = ev_idx + 1
    /\ UNCHANGED <<events, debug_assertions>>
    /\ UNCHANGED <<term_cols, term_rows, document, scroll_offset,
                   viewport_height, quit, loop_pc>>
    /\ UNCHANGED wrap_vars
    /\ UNCHANGED hl_vars
    /\ UNCHANGED main_vars

\* parser.rs 351: the events are used up, parse returns its blocks
ParseReturn ==
    /\ parse_pc = "loop" /\ ev_idx = Len(events)
    /\ parse_pc' = "returned"
    /\ UNCHANGED <<events, ev_idx, state_stack, style_stack, current_spans,
                   hl_calls, debug_assertions, trace>>
    /\ UNCHANGED app_vars
    /\ UNCHANGED wrap_vars
    /\ UNCHANGED hl_vars
    /\ UNCHANGED main_vars

NextParse == ParseEvent \/ ParseReturn

SpecParse == InitParse /\ [][NextParse]_vars

(***************************************************************************)
(* Properties of the layout.                                               *)
(***************************************************************************)
\* the text of a Line: the contents of its runs, concatenated
LineText(line) == Concat([r \in 1..Len(line) |-> line[r].content])

\* the text a document line shows
DocLineText(dl) == IF dl.kind \in {"Text", "Code"} THEN LineText(dl.line) ELSE <<>>

\* the texts of the lines of the document, top to bottom
EmittedTexts == [k \in 1..Len(document.lines) |-> DocLineText(document.lines[k])]

RECURSIVE JoinWithSpace(_)
JoinWithSpace(texts) ==
    IF texts = <<>> THEN <<>>
    ELSE IF Len(texts) = 1 THEN texts[1]
    ELSE texts[1] \o <<SP>> \o JoinWithSpace(Tail(texts))

RECURSIVE WordsFrom(_, _, _)
WordsFrom(s, i, cur) ==
    IF i > Len(s) THEN (IF cur = <<>> THEN <<>> ELSE <<cur>>)
    ELSE IF s[i] \in {SP, NL}
         THEN (IF cur = <<>> THEN <<>> ELSE <<cur>>) \o WordsFrom(s, i + 1, <<>>)
         ELSE WordsFrom(s, i + 1, Append(cur, s[i]))

\* the whitespace-delimited words of s, in order
WordsOf(s) == WordsFrom(s, 1, <<>>)

IsBlank(b) == b \in {SP, NL}
IsInk(b) == b \notin {SP, NL}
NotSpace(b) == b # SP

\* s without its spaces and newlines
Ink(s) == SelectSeq(s, IsInk)

\* a word the line breaker may cut: an ideograph next to another character,
\* or a hyphen between two alphanumeric characters
WordHasBreak(w) ==
    \/ Len(w) > 3 /\ \E p \in 1..Len(w) : w[p] = ID
    \/ \E p \in 2..(Len(w) - 1) :
           w[p] = HY /\ is_alphanumeric(w[p - 1]) /\ is_alphanumeric(w[p + 1])

\* every word of s fits in w columns and offers no place to cut it
WordsStayWhole(s, w) ==
    \A k \in 1..Len(WordsOf(s)) :
        ~WordHasBreak(WordsOf(s)[k]) /\ display_width(WordsOf(s)[k]) <= w

\* C1, as the claim states it: the lines of a wrapped paragraph, joined by
\* single spaces, hold every whitespace-delimited word of the original
\* text exactly once and in the original order
C1_WordsPreserved ==
    pc = "done" =>
        WordsOf(JoinWithSpace(EmittedTexts)) = WordsOf(PlainOf(spans))

\* C1, amended: the lines of a wrapped paragraph hold every non-blank
\* character of the original text exactly once and in the original order;
\* when every word fits the width and offers no place to cut it, the lines
\* joined by single spaces hold the original words exactly once, in order
C1_ContentPreserved ==
    pc = "done" =>
        /\ Ink(Concat(EmittedTexts)) = Ink(PlainOf(spans))
        /\ WordsStayWhole(PlainOf(spans), width) =>
               WordsOf(JoinWithSpace(EmittedTexts)) = WordsOf(PlainOf(spans))

\* a paragraph of several whole words wrapped into several lines
C1_Witness ==
    /\ pc = "done" /\ ~HasHardBreak(spans)
    /\ WordsStayWhole(PlainOf(spans), width)
    /\ Len(WordsOf(PlainOf(spans))) >= 2
    /\ Len(document.lines) >= 2

\* C2: within one call the cursor is the end of the last mapped line, each
\* line ends at or after its start, and each line starts at or after the
\* end of the line before it
C2_CursorMonotonic ==
    /\ cursor = (IF ranges = <<>> THEN 0 ELSE ranges[Len(ranges)][2])
    /\ \A k \in 1..Len(ranges) :
           /\ ranges[k][1] <= ranges[k][2]
           /\ k > 1 => ranges[k][1] >= ranges[k - 1][2]

\* a second line whose text also occurs at the start of plain, before the
\* end of the first line
C2_Witness ==
    /\ pc = "map" /\ Len(ranges) >= 2
    /\ wrapped_lines[2] # <<>>
    /\ starts_with(plain, wrapped_lines[2])
    /\ ranges[2][1] >= ranges[1][2] /\ ranges[1][2] > 0

\* text is the part of s that starts at byte offset off
OccursAt(s, off, text) ==
    /\ off + Len(text) <= Len(s)
    /\ Slice(s, off, off + Len(text)) = text

\* C3, as the claim states it: a wrapped line that is not found in plain
\* at or after the cursor is emitted as one unstyled run holding the
\* wrapped text, and the call does not panic
C3_FallbackKeepsText ==
    /\ ~panicked
    /\ \A k \in 1..Len(wrapped) :
           ~OccursAt(plain, ranges[k][1], wrapped_lines[k])
           => wrapped[k] = <<[content |-> wrapped_lines[k], style |-> DefaultStyle]>>

\* the parts of the text between its newlines
HardBreakSegments == SplitOn(PlainOf(spans), NL)

\* the lines of the result that f places in segment j, concatenated
TextInSegment(f, j) ==
    Concat([k \in 1..Len(result) |->
               IF f[k] = j THEN LineText(result[k]) ELSE <<>>])

\* C4: the lines of a text with hard breaks hold no newline, and they are,
\* in order, the lines of its newline-separated segments: each line lies
\* in one segment, and the lines of a segment hold the segment's text but
\* for spaces
C4_HardBreaksSplit ==
    pc = "done" /\ HasHardBreak(spans) =>
        /\ \A k \in 1..Len(result) : ~contains_newline(LineText(result[k]))
        /\ \E f \in [1..Len(result) -> 1..Len(HardBreakSegments)] :
               /\ \A k \in 1..(Len(result) - 1) : f[k] <= f[k + 1]
               /\ \A j \in 1..Len(HardBreakSegments) :
                      SelectSeq(TextInSegment(f, j), NotSpace)
                          = SelectSeq(HardBreakSegments[j], NotSpace)

\* a text with ink on both sides of a hard break, laid out
C4_Witness ==
    /\ pc = "done" /\ HasHardBreak(spans)
    /\ Len(HardBreakSegments) = 2
    /\ Ink(HardBreakSegments[1]) # <<>> /\ Ink(HardBreakSegments[2]) # <<>>
    /\ Len(result) >= 2

\* the spans all have style st
UniformStyle(st) == \A k \in 1..Len(spans) : spans[k].style = st

\* C8: when every input span has the same style, every run of every
\* emitted line has that style
C8_UniformStyle ==
    pc = "done" =>
        \A st \in {BOLD, ITALIC, DefaultStyle} :
            UniformStyle(st) =>
                \A k \in 1..Len(document.lines) :
                    document.lines[k].kind = "Text" =>
                        \A r \in 1..Len(document.lines[k].line) :
                            document.lines[k].line[r].style = st

\* two spans of one style wrapped into several lines with runs
C8_Witness ==
    /\ pc = "done" /\ Len(spans) = 2 /\ UniformStyle(BOLD)
    /\ spans[1].text # <<>> /\ spans[2].text # <<>>
    /\ Len(document.lines) >= 2
    /\ \A k \in 1..Len(document.lines) :
           document.lines[k].kind = "Text" /\ document.lines[k].line # <<>>

\* every character of s is at most w columns wide
CharsFit(s, w) == \A i \in 1..Len(s) : ch_width(s[i]) <= w

\* C9, as the claim states it: whenever every character is at most width
\* columns wide, no emitted Text line is wider than width columns, and a
\* word wider than width is broken across lines
C9_LinesFitWidth ==
    pc = "done" /\ CharsFit(PlainOf(spans), width) =>
        /\ \A k \in 1..Len(EmittedTexts) : display_width(EmittedTexts[k]) <= width
        /\ (\E k \in 1..Len(WordsOf(PlainOf(spans))) :
                display_width(WordsOf(PlainOf(spans))[k]) > width)
           => Len(document.lines) >= 2

\* C10: an empty span list and spans of empty text wrap to zero lines, for
\* which flatten emits exactly one Empty line; the paragraph contributes at
\* least one line in every case
C10_AtLeastOneLine ==
    pc = "done" =>
        /\ (spans = <<>> \/ PlainOf(spans) = <<>>) =>
               result = <<>> /\ document.lines = <<EmptyLine>>
        /\ Len(document.lines) >= 1
        /\ document.total_height >= 1

\* spans that are there but hold no text, laid out
C10_Witness ==
    /\ pc = "done" /\ spans # <<>> /\ PlainOf(spans) = <<>>
    /\ document.lines = <<EmptyLine>>

IsCodeLine(dl) == dl.kind = "Code"
IsCodeBlock(b) == b.kind = "CodeBlock"

\* the Code lines of the document and the CodeBlock blocks, in order
CodeLines == SelectSeq(document.lines, IsCodeLine)
CodeBlocks == SelectSeq(blocks, IsCodeBlock)

\* 1 when the block has a label line
LabelCount(b) == IF b.language # <<>> THEN 1 ELSE 0

RECURSIVE CodeLinesThrough(_)
\* the Code lines the first j code blocks should give
CodeLinesThrough(j) ==
    IF j = 0 THEN 0
    ELSE CodeLinesThrough(j - 1)
         + LabelCount(CodeBlocks[j]) + Len(CodeBlocks[j].highlighted_lines)

\* t occurs in s
Contains(s, t) == \E off \in 0..Len(s) : OccursAt(s, off, t)

\* C5: at any width a code block of k highlighted lines gives exactly k
\* Code lines, each line as it was given, and one more Code line before
\* them, showing the language, exactly when the language is not empty
C5_CodeNeverWraps ==
    loop_pc = "flattened" =>
        /\ Len(CodeLines) = CodeLinesThrough(Len(CodeBlocks))
        /\ \A j \in 1..Len(CodeBlocks) :
               LET base == CodeLinesThrough(j - 1)
                   b == CodeBlocks[j]
               IN  /\ LabelCount(b) = 1 =>
                          Contains(LineText(CodeLines[base + 1].line), b.language)
                   /\ \A k \in 1..Len(b.highlighted_lines) :
                          CodeLines[base + LabelCount(b) + k].line
                              = b.highlighted_lines[k]

\* a labelled code block with a line wider than the terminal, laid out
C5_Witness ==
    /\ loop_pc = "flattened" /\ pc = "idle"
    /\ \E i \in 1..Len(blocks) :
           /\ blocks[i].kind = "CodeBlock" /\ blocks[i].language # <<>>
           /\ \E k \in 1..Len(blocks[i].highlighted_lines) :
                  display_width(LineText(blocks[i].highlighted_lines[k])) > term_cols
    /\ Len(CodeLines) >= 3

\* the width flatten lays out at
LayoutWidth == IF term_cols > 1 THEN term_cols ELSE 1

RECURSIVE LinesThrough(_)
\* the lines the first i blocks contribute, separators not counted
LinesThrough(i) ==
    IF i = 0 THEN 0
    ELSE LinesThrough(i - 1) + Len(FlattenBlock(blocks[i], LayoutWidth))

\* C6: the document is the lines of its blocks, in order, with exactly one
\* Empty line between two neighbours and none before the first block or
\* after the last: its length is the sum of the blocks' lines plus
\* max(0, n - 1), and no block gives an empty document
C6_OneSeparator ==
    loop_pc = "flattened" =>
        LET n == Len(blocks)
        IN  /\ Len(document.lines) = LinesThrough(n) + (IF n > 0 THEN n - 1 ELSE 0)
            /\ \A i \in 1..n :
                   /\ SubSeq(document.lines, LinesThrough(i - 1) + i,
                             LinesThrough(i) + i - 1)
                          = FlattenBlock(blocks[i], LayoutWidth)
                   /\ i < n => document.lines[LinesThrough(i) + i] = EmptyLine
            /\ n = 0 => document.lines = <<>> /\ document.total_height = 0

\* two blocks laid out, the second one a spacer of Empty lines
C6_Witness ==
    /\ loop_pc = "flattened" /\ pc = "idle"
    /\ Len(blocks) = 2 /\ blocks[2].kind = "Spacer" /\ blocks[2].lines = 2
    /\ blocks[1].kind = "Paragraph"
    /\ Len(document.lines) >= 4

\* C7: the document's total_height is the number of its lines, in the
\* first document and in every document installed after a resize
C7_HeightIsLineCount == document.total_height = Len(document.lines)

\* a document of several lines installed by a resize that changed the rows:
\* the viewport height is still the one of the old size
C7_Witness ==
    /\ loop_pc = "size" /\ viewport_height > 0
    /\ viewport_height # (IF term_rows > 1 THEN term_rows - 1 ELSE 0)
    /\ document.total_height >= 2

\* C11: flatten at width 0 gives the document that laying the same blocks
\* out at width 1 gives
C11_ZeroWidthIsOne ==
    loop_pc = "flattened" /\ term_cols = 0 =>
        document = [lines |-> FlattenFrom(blocks, 0, 1),
                    total_height |-> Len(FlattenFrom(blocks, 0, 1))]

\* a heading of three words laid out at width 0: one word per line
C11_Witness ==
    /\ loop_pc = "flattened" /\ pc = "idle" /\ term_cols = 0
    /\ Len(blocks) = 1 /\ blocks[1].kind = "Heading"
    /\ Len(document.lines) = 3

\* the lines of the document that block i contributes
BlockLines(i) ==
    SubSeq(document.lines, LinesThrough(i - 1) + i, LinesThrough(i) + i - 1)

\* C12: at every width a ThematicBreak contributes exactly one Rule line
\* and a Spacer of count c contributes exactly c Empty lines
C12_RuleAndSpacer ==
    loop_pc = "flattened" =>
        \A i \in 1..Len(blocks) :
            /\ blocks[i].kind = "ThematicBreak" =>
                   BlockLines(i) = <<[kind |-> "Rule"]>>
            /\ blocks[i].kind = "Spacer" =>
                   BlockLines(i) = [k \in 1..blocks[i].lines |-> [kind |-> "Empty"]]

\* a rule, a spacer of two lines and an empty spacer, laid out
C12_Witness ==
    /\ loop_pc = "flattened" /\ pc = "idle"
    /\ \E i \in 1..Len(blocks) : blocks[i].kind = "ThematicBreak"
    /\ \E i \in 1..Len(blocks) : blocks[i].kind = "Spacer" /\ blocks[i].lines = 2
    /\ Len(document.lines) = 4

(***************************************************************************)
(* Properties of the parser.  trace[k] is the parser before event k and    *)
(* trace[k + 1] the parser after it.                                       *)
(***************************************************************************)
\* the loop has taken at least one event
Stepped == ev_idx >= 1
\* the event taken last, the parser before it and the parser after it
Ev == events[ev_idx]
Before == trace[ev_idx]
After == trace[ev_idx + 1]

\* start events less end events among the first k events
Balance(k) ==
    Cardinality({i \in 1..k : events[i].kind = "Start"})
    - Cardinality({i \in 1..k : events[i].kind = "End"})

\* event k lies in the construct that starts at event i, its end included
Inside(i, k) == i <= k /\ \A m \in i..(k - 1) : Balance(m) > Balance(i - 1)

\* event j is the end event that closes the start event i
Matches(i, j) ==
    /\ i < j /\ events[i].kind = "Start" /\ events[j].kind = "End"
    /\ Inside(i, j) /\ Balance(j) = Balance(i - 1)

\* every end event matches the most recent unmatched start
WellNested ==
    \A j \in 1..Len(events) :
        events[j].kind = "End" =>
            \E i \in 1..(j - 1) :
                Matches(i, j) /\ events[i].tag.name = events[j].tag.name

\* event k starts a code block
StartsCodeBlock(k) == events[k].kind = "Start" /\ events[k].tag.name = "CodeBlock"

\* no code block lies inside another code block
CodeBlocksNotNested ==
    \A i \in 1..Len(events) : \A k \in (i + 1)..Len(events) :
        (StartsCodeBlock(i) /\ StartsCodeBlock(k)) => ~Inside(i, k)

\* a start event of a construct parse has no arm for
Unsupported(ev) ==
    /\ ev.kind = "Start"
    /\ ev.tag.name \notin {"Heading", "Paragraph", "CodeBlock", "Link", "Image",
                           "Emphasis", "Strong", "Strikethrough"}

\* a list of one item that holds a paragraph, then a paragraph
ListThenParagraph ==
    <<Start([name |-> "List"]), Start([name |-> "Item"]),
      Start([name |-> "Paragraph"]), [kind |-> "Text", text |-> <<"a">>],
      End([name |-> "Paragraph"]), End([name |-> "Item"]), End([name |-> "List"]),
      Start([name |-> "Paragraph"]), [kind |-> "Text", text |-> <<"a">>],
      End([name |-> "Paragraph"])>>

\* the style of text no modifier applies to
PlainStyle == [fg |-> "None", bg |-> "None", add_modifier |-> {}, sub_modifier |-> {}]

\* C13: from the start of an unsupported construct in normal dispatch to its
\* matching end no event emits a block or appends a span; after the
\* matching end the state stack and the style stack are what they were
\* before the start; a list followed by a paragraph yields one Paragraph
C13_SkippedConstructIsSilent ==
    /\ \A i \in 1..ev_idx :
           ( /\ Unsupported(events[i])
             /\ NormalDispatch(trace[i].state_stack)
             /\ Inside(i, ev_idx) ) =>
               /\ After.blocks = trace[i].blocks
               /\ After.current_spans = trace[i].current_spans
               /\ Matches(i, ev_idx) =>
                      /\ After.state_stack = trace[i].state_stack
                      /\ After.style_stack = trace[i].style_stack
    /\ (parse_pc = "returned" /\ events = ListThenParagraph) =>
           blocks = <<[kind |-> "Paragraph",
                       content |-> <<[text |-> <<"a">>, style |-> PlainStyle]>>]>>

\* the list followed by a paragraph has been parsed
C13_Witness ==
    /\ parse_pc = "returned" /\ events = ListThenParagraph
    /\ Len(blocks) = 1
    /\ \E k \in 1..ev_idx : TopIs(trace[k].state_stack, "Skipping")
                            /\ Last(trace[k].state_stack).depth = 2

\* the event taken last found the state stack empty, or asked for a pop on
\* an empty style stack, or was a heading end without InHeading on top
FailedAssertion ==
    /\ Stepped
    /\ ~TopIs(Before.state_stack, "InCodeBlock")
    /\ \/ Before.state_stack = <<>>
       \/ /\ NormalDispatch(Before.state_stack)
          /\ Ev.kind = "End"
          /\ \/ Ev.tag.name \in {"Link", "Emphasis", "Strong", "Strikethrough"}
                /\ Before.style_stack = <<>>
             \/ Ev.tag.name = "Heading"
                /\ Last(Before.state_stack).kind # "InHeading"

\* C14 as stated: for no event sequence does parse panic
C14_NeverPanics == parse_pc # "panicked"

\* C14: in a build without debug assertions parse panics for no event
\* sequence, and what it returns is a list of blocks; in a build with debug
\* assertions it panics exactly when an event finds the state stack empty,
\* an inline end finds the style stack empty, or a heading end finds no
\* InHeading state
C14_PanicsOnlyInDebugBuilds ==
    /\ ~debug_assertions => parse_pc # "panicked"
    /\ parse_pc = "panicked" => FailedAssertion
    /\ (debug_assertions /\ FailedAssertion) => parse_pc = "panicked"
    /\ parse_pc = "returned" =>
           \A b \in 1..Len(blocks) :
               blocks[b].kind \in {"Heading", "Paragraph", "CodeBlock", "ThematicBreak"}

\* without debug assertions, a stream whose inline end found the style stack
\* empty has been parsed to its end and a block returned
C14_Witness ==
    /\ ~debug_assertions /\ parse_pc = "returned" /\ ev_idx = Len(events)
    /\ Len(blocks) >= 1
    /\ \E k \in 1..ev_idx :
           /\ NormalDispatch(trace[k].state_stack)
           /\ events[k].kind = "End" /\ events[k].tag.name = "Strong"
           /\ trace[k].style_stack = <<>>

\* the event taken last is a heading end in normal dispatch
HeadingEndStep ==
    /\ Stepped /\ Ev.kind = "End" /\ Ev.tag.name = "Heading"
    /\ NormalDispatch(Before.state_stack)

\* C15 as stated: a heading end that pops a state other than InHeading
\* emits a Heading of level 1 from the accumulator and leaves the style
\* stack alone; one that pops InHeading{level} pops exactly one style entry
\* and emits a Heading of that level
C15_HeadingEndRecovers ==
    HeadingEndStep =>
        IF Last(Before.state_stack).kind = "InHeading"
        THEN /\ Len(After.style_stack) = Len(Before.style_stack) - 1
             /\ After.blocks =
                    Append(Before.blocks,
                           [kind |-> "Heading",
                            level |-> Last(Before.state_stack).level,
                            content |-> Before.current_spans])
        ELSE /\ After.style_stack = Before.style_stack
             /\ After.blocks =
                    Append(Before.blocks,
                           [kind |-> "Heading", level |-> 1,
                            content |-> Before.current_spans])

\* C15: a heading end that pops a state other than InHeading leaves the
\* style stack alone and, in a build without debug assertions, emits a
\* Heading of level 1 from the accumulator, while in a build with debug
\* assertions it panics and emits nothing; one that pops InHeading{level}
\* pops the top style entry, if there is one, and emits a Heading of that
\* level
C15_HeadingEndRecoversInRelease ==
    HeadingEndStep =>
        /\ After.state_stack = Pop(Before.state_stack)
        /\ IF Last(Before.state_stack).kind = "InHeading"
           THEN /\ After.style_stack = Pop(Before.style_stack)
                /\ After.blocks =
                       Append(Before.blocks,
                              [kind |-> "Heading",
                               level |-> Last(Before.state_stack).level,
                               content |-> Before.current_spans])
           ELSE /\ After.style_stack = Before.style_stack
                /\ IF debug_assertions
                   THEN parse_pc = "panicked" /\ After.blocks = Before.blocks
                   ELSE After.blocks =
                            Append(Before.blocks,
                                   [kind |-> "Heading", level |-> 1,
                                    content |-> Before.current_spans])

\* without debug assertions, a heading end at top level while an emphasis
\* is open has made a Heading of level 1 from the text before it
C15_Witness ==
    /\ HeadingEndStep /\ ~debug_assertions
    /\ Last(Before.state_stack).kind = "TopLevel"
    /\ Before.style_stack # <<>> /\ Before.current_spans # <<>>
    /\ Last(After.blocks).kind = "Heading" /\ Last(After.blocks).level = 1

\* C16 as stated: on a well-nested stream neither stack is empty between
\* the first and the last event
C16_BothStacksNonEmpty ==
    (WellNested /\ parse_pc = "loop" /\ 1 <= ev_idx /\ ev_idx < Len(events)) =>
        state_stack # <<>> /\ style_stack # <<>>

\* the event taken last pops the style stack
PopsStyle ==
    /\ Stepped /\ NormalDispatch(Before.state_stack) /\ Ev.kind = "End"
    /\ \/ Ev.tag.name \in {"Link", "Emphasis", "Strong", "Strikethrough"}
       \/ Ev.tag.name = "Heading" /\ Last(Before.state_stack).kind = "InHeading"

\* C16: on a well-nested stream in which no code block lies inside another
\* the state stack is never empty, no pop is asked of an empty style stack
\* and no assertion fails; the style stack itself is empty whenever no
\* heading and no inline format is open
C16_NoUnderflowWhenWellNested ==
    ( \/ parse_pc # "idle" /\ state_stack = <<>>
      \/ PopsStyle /\ Before.style_stack = <<>>
      \/ parse_pc = "panicked" ) => (~CodeBlocksNotNested \/ ~WellNested)

\* a well-nested stream parsed to its end: the style stack was two deep at
\* some event and is empty again
C16_Witness ==
    /\ WellNested /\ parse_pc = "returned" /\ ev_idx = Len(events)
    /\ style_stack = <<>> /\ state_stack # <<>>
    /\ \E k \in 1..ev_idx : Len(trace[k].style_stack) = 2
    /\ \E k \in 1..ev_idx : TopIs(trace[k].state_stack, "InHeading")

\* the entries of a style stack that set the colour field
SetsColour(stack, field) == {i \in 1..Len(stack) : stack[i][field] # "None"}

\* the colour the last entry that sets one gives
LastColour(stack, field) ==
    IF SetsColour(stack, field) = {} THEN "None"
    ELSE stack[CHOOSE i \in SetsColour(stack, field) :
                   \A j \in SetsColour(stack, field) : j <= i][field]

\* every entry of the stack applied, base to top: a later colour overrides
\* an earlier one, added modifiers accumulate
ExpectedFold(stack) ==
    [fg |-> LastColour(stack, "fg"), bg |-> LastColour(stack, "bg"),
     add_modifier |-> UNION {stack[i].add_modifier : i \in 1..Len(stack)},
     sub_modifier |-> {}]

\* C17: a Text event in normal dispatch appends exactly one span, whose
\* style is every style-stack entry applied base to top
C17_TextCarriesFold ==
    (Stepped /\ Ev.kind = "Text" /\ NormalDispatch(Before.state_stack)) =>
        After.current_spans =
            Append(Before.current_spans,
                   [text |-> Ev.text, style |-> ExpectedFold(Before.style_stack)])

\* text inside strong inside emphasis inside a heading of level 2 carries
\* the heading's colour, bold and italic
C17_Witness ==
    /\ Stepped /\ Ev.kind = "Text" /\ NormalDispatch(Before.state_stack)
    /\ Len(Before.style_stack) = 3
    /\ Before.style_stack[2].add_modifier = {"ITALIC"}
    /\ Before.style_stack[3].add_modifier = {"BOLD"}
    /\ Last(After.current_spans).style =
           [fg |-> "Green", bg |-> "None",
            add_modifier |-> {"BOLD", "ITALIC"}, sub_modifier |-> {}]

\* the entry an inline start tag is to push
ModifierEntry(name) ==
    [fg |-> "None", bg |-> "None", sub_modifier |-> {},
     add_modifier |-> CASE name = "Emphasis" -> {"ITALIC"}
                        [] name = "Strong" -> {"BOLD"}
                        [] name = "Strikethrough" -> {"CROSSED_OUT"}
                        [] name = "Link" -> {"ITALIC"}]

\* C18: an Emphasis, Strong, Strikethrough or Link start in normal dispatch
\* pushes exactly one entry (italic, bold, crossed-out, italic); on a
\* well-nested stream its matching end pops exactly one entry and leaves
\* the style stack as it was before the start
C18_InlinePushPop ==
    Stepped =>
        /\ ( /\ Ev.kind = "Start" /\ NormalDispatch(Before.state_stack)
             /\ Ev.tag.name \in {"Emphasis", "Strong", "Strikethrough", "Link"} ) =>
               After.style_stack =
                   Append(Before.style_stack, ModifierEntry(Ev.tag.name))
        /\ \A i \in 1..(ev_idx - 1) :
               ( /\ Ev.kind = "End" /\ events[i].kind = "Start"
                 /\ events[i].tag.name \in {"Emphasis", "Strong", "Strikethrough", "Link"}
                 /\ NormalDispatch(trace[i].state_stack)
                 /\ Matches(i, ev_idx) /\ WellNested ) =>
                   /\ Len(After.style_stack) = Len(Before.style_stack) - 1
                   /\ After.style_stack = trace[i].style_stack

\* a paragraph of bold text and then text: the second span is not bold
C18_Witness ==
    /\ parse_pc = "returned" /\ WellNested
    /\ Len(blocks) = 1 /\ blocks[1].kind = "Paragraph"
    /\ Len(blocks[1].content) = 2
    /\ blocks[1].content[1].style.add_modifier = {"BOLD"}
    /\ blocks[1].content[2].style.add_modifier = {}

\* C19: an inline-code event in normal dispatch appends one span in the
\* fixed inline-code style whatever the style stack holds, and leaves both
\* stacks as they were
C19_InlineCodeStyleIsFixed ==
    (Stepped /\ Ev.kind = "Code" /\ NormalDispatch(Before.state_stack)) =>
        /\ After.current_spans =
               Append(Before.current_spans,
                      [text |-> Ev.text,
                       style |-> [fg |-> "Indexed(252)", bg |-> "Indexed(236)",
                                  add_modifier |-> {"BOLD", "ITALIC"},
                                  sub_modifier |-> {}]])
        /\ After.style_stack = Before.style_stack
        /\ After.state_stack = Before.state_stack

\* inline code inside crossed-out text inside a heading
C19_Witness ==
    /\ Stepped /\ Ev.kind = "Code" /\ TopIs(Before.state_stack, "InHeading")
    /\ Len(Before.style_stack) = 2
    /\ Last(Before.style_stack).add_modifier = {"CROSSED_OUT"}
    /\ Len(After.current_spans) = 1

RECURSIVE TextBetween(_, _)
\* the texts of the Text events a..b, in the order they arrive
TextBetween(a, b) ==
    IF a > b THEN <<>>
    ELSE (IF events[a].kind = "Text" THEN events[a].text ELSE <<>>)
         \o TextBetween(a + 1, b)

\* the event that pushed the InCodeBlock state event k finds on top
CodeBlockStart(k) ==
    CHOOSE s \in 1..(k - 1) :
        /\ ~TopIs(trace[s].state_stack, "InCodeBlock")
        /\ \A m \in (s + 1)..k : TopIs(trace[m].state_stack, "InCodeBlock")

\* the CodeBlock nodes among the blocks
CodeBlockCount(bs) == Cardinality({b \in 1..Len(bs) : bs[b].kind = "CodeBlock"})

\* C20: the highlighter is called at the end event of a code block and at
\* no other event, once, with the texts received while InCodeBlock was on
\* top in arrival order, the language recorded at the start and the fixed
\* theme; the step appends one CodeBlock holding the returned lines and
\* pops InCodeBlock
C20_HighlightOncePerCodeBlock ==
    Stepped =>
        IF /\ TopIs(Before.state_stack, "InCodeBlock")
           /\ Ev.kind = "End" /\ Ev.tag.name = "CodeBlock"
        THEN LET s == CodeBlockStart(ev_idx)
                 code == TextBetween(s + 1, ev_idx - 1)
                 language == Last(trace[s + 1].state_stack).language
             IN  /\ After.hl_calls =
                        Append(Before.hl_calls,
                               [code |-> code, language |-> language,
                                theme_name |-> "base16-ocean.dark"])
                 /\ After.blocks =
                        Append(Before.blocks,
                               [kind |-> "CodeBlock", language |-> language,
                                highlighted_lines |->
                                    highlight_code(code, language,
                                                   "base16-ocean.dark")])
                 /\ After.state_stack = Pop(Before.state_stack)
        ELSE /\ After.hl_calls = Before.hl_calls
             /\ CodeBlockCount(After.blocks) = CodeBlockCount(Before.blocks)

\* a fenced block of two Text events has been highlighted as one text
C20_Witness ==
    /\ parse_pc = "returned"
    /\ hl_calls = <<[code |-> <<"a", NL, "b">>, language |-> <<"r", "s">>,
                     theme_name |-> "base16-ocean.dark"]>>
    /\ Len(blocks) = 1 /\ blocks[1].kind = "CodeBlock"
    /\ Len(blocks[1].highlighted_lines) = 2

\* the event taken last is the start of a code block in normal dispatch
CodeBlockStartStep ==
    /\ Stepped /\ Ev.kind = "Start" /\ Ev.tag.name = "CodeBlock"
    /\ NormalDispatch(Before.state_stack)

\* language is the first whitespace-delimited token of info, cut before its
\* first comma: it starts where the leading whitespace of info ends, holds
\* neither whitespace nor comma, and is followed by whitespace, a comma or
\* the end of info
IsLanguageOf(language, info) ==
    \E a \in 1..(Len(info) + 1) :
        /\ \A i \in 1..(a - 1) : info[i] = " "
        /\ a <= Len(info) => info[a] # " "
        /\ a + Len(language) - 1 <= Len(info)
        /\ \A i \in 1..Len(language) :
               language[i] = info[a + i - 1] /\ language[i] \notin {" ", ","}
        /\ (a <= Len(info) /\ a + Len(language) <= Len(info)) =>
               info[a + Len(language)] \in {" ", ","}

\* C21: the language recorded at the start of a fenced code block is the
\* first whitespace-delimited token of the info string cut before its first
\* comma, the empty language for an empty info string; an indented code
\* block has the empty language
C21_LanguageIsFirstToken ==
    CodeBlockStartStep =>
        /\ TopIs(After.state_stack, "InCodeBlock")
        /\ IF Ev.tag.fenced
           THEN /\ IsLanguageOf(Last(After.state_stack).language, Ev.tag.info)
                /\ Ev.tag.info = <<>> => Last(After.state_stack).language = <<>>
                /\ Ev.tag.info = <<"r", ",", "r">> =>
                       Last(After.state_stack).language = <<"r">>
                /\ Ev.tag.info = <<"r", " ", "r">> =>
                       Last(After.state_stack).language = <<"r">>
           ELSE Last(After.state_stack).language = <<>>

\* a fenced block whose info string is a token, a comma and a modifier has
\* been parsed into a CodeBlock of the token's language
C21_Witness ==
    /\ parse_pc = "returned" /\ Len(events) = 3
    /\ events[1].kind = "Start" /\ events[1].tag.name = "CodeBlock"
    /\ events[1].tag.fenced
    /\ events[1].tag.info = <<"r", ",", "r">>
    /\ Len(blocks) = 1 /\ blocks[1].kind = "CodeBlock"
    /\ blocks[1].language = <<"r">>

\* C22: every Heading block parse has emitted has a level in 1..=6, on the
\* normal path and on the recovery path of an unmatched heading end
C22_HeadingLevelInRange ==
    \A b \in 1..Len(blocks) :
        blocks[b].kind = "Heading" => blocks[b].level \in 1..6

\* a heading of level 2 has been emitted on the normal path and then, for a
\* heading end taken at top level, a heading of level 1
C22_Witness ==
    /\ parse_pc = "returned" /\ Len(blocks) = 2 /\ HeadingEndStep
    /\ Last(Before.state_stack).kind = "TopLevel"
    /\ events[1] = [kind |-> "Start", tag |-> [name |-> "Heading", level |-> "H2"]]
    /\ blocks[1].kind = "Heading" /\ blocks[1].level = 2
    /\ blocks[2].kind = "Heading" /\ blocks[2].level = 1

(***************************************************************************)
(* One call of Highlighter::highlight_code: the code is any text of up to  *)
(* MaxCodeLen elements, each a letter, a carriage return, a line feed or   *)
(* a run of MAX_HIGHLIGHT_BYTES letters.                                   *)
(***************************************************************************)
MaxCodeLen == 3

CodeChars == {"a", CR, NL, RUN}
Codes == UNION {[1..n -> CodeChars] : n \in 0..MaxCodeLen}
Languages == {<<>>, <<"r">>, <<"r", "s">>, <<"r", "r">>}
ThemeNames == {DEFAULT_THEME, "Solarized (dark)", "nonexistent-theme"}
ThemeSets == {ThemeSet_load_defaults, {"Solarized (dark)"}, {}}
FailingSets == {{}, {1}, {2}}
CutSets == SUBSET {1, 2}

\* highlight.rs 46-51: highlight_code is entered
InitHighlight ==
    /\ ParseIdle
    /\ WrapIdle
    /\ MainIdle
    /\ blocks = <<>>
    /\ term_cols = 0 /\ term_rows = 0
    /\ document = MakeDocument(<<>>)
    /\ viewport_height = 0 /\ scroll_offset = 0 /\ quit = FALSE
    /\ loop_pc = "highlight"
    /\ h_theme_set \in ThemeSets
    /\ h_code \in Codes
    /\ h_language \in Languages
    /\ h_theme_name \in ThemeNames
    /\ h_failing \in FailingSets
    /\ h_cuts \in CutSets
    /\ h_lines = <<>>
    /\ h_pc = "call"

\* what a return of highlight_code changes
HighlightReturn(path) ==
    /\ h_lines' = highlight_code_with(h_theme_set, h_code, h_language,
                                      h_theme_name, h_failing, h_cuts)
    /\ h_pc' = path
    /\ UNCHANGED <<h_theme_set, h_code, h_language, h_theme_name, h_failing, h_cuts>>
    /\ UNCHANGED app_vars
    /\ UNCHANGED wrap_vars
    /\ UNCHANGED parse_vars
    /\ UNCHANGED main_vars

\* highlight.rs 55-61: the code is longer than MAX_HIGHLIGHT_BYTES
HighlightOversize ==
    /\ h_pc = "call"
    /\ str_len(h_code) > MAX_HIGHLIGHT_BYTES
    /\ HighlightReturn("oversize")

\* highlight.rs 71-83: neither the named theme nor the default theme
HighlightNoTheme ==
    /\ h_pc = "call"
    /\ str_len(h_code) <= MAX_HIGHLIGHT_BYTES
    /\ find_theme(h_theme_set, h_theme_name) = {}
    /\ HighlightReturn("no_theme")

\* highlight.rs 85-114: the lines are highlighted one by one
HighlightLines ==
    /\ h_pc = "call"
    /\ str_len(h_code) <= MAX_HIGHLIGHT_BYTES
    /\ find_theme(h_theme_set, h_theme_name) # {}
    /\ HighlightReturn("highlighted")

NextHighlight == HighlightOversize \/ HighlightNoTheme \/ HighlightLines

SpecHighlight == InitHighlight /\ [][NextHighlight]_vars

(***************************************************************************)
(* Properties of the App and of the event loop.                            *)
(***************************************************************************)
\* total_height less the viewport height, floored at 0
ExpectedMaxScroll ==
    IF document.total_height > viewport_height
    THEN document.total_height - viewport_height ELSE 0

\* the smaller of two numbers
Smaller(a, b) == IF a < b THEN a ELSE b

\* C24: on a document and a viewport height that stay the same, after any
\* sequence of key events and of scroll_down(n) and scroll_up(n) calls,
\* 0 <= scroll_offset <= max_scroll; scroll_down(n) called next stops at
\* max_scroll for every n, usize::MAX included, scroll_up(n) stops at 0, and
\* max_scroll is 0 when the document is not taller than the viewport
C24_ScrollStaysInRange ==
    loop_pc = "app" =>
        /\ 0 <= scroll_offset /\ scroll_offset <= ExpectedMaxScroll
        /\ max_scroll(document, viewport_height) = ExpectedMaxScroll
        /\ document.total_height <= viewport_height =>
               max_scroll(document, viewport_height) = 0 /\ scroll_offset = 0
        /\ \A n \in ScrollAmounts :
               /\ scroll_down(document, viewport_height, scroll_offset, n)
                      = Smaller(scroll_offset + n, ExpectedMaxScroll)
               /\ scroll_up(scroll_offset, n)
                      = (IF scroll_offset > n THEN scroll_offset - n ELSE 0)
        /\ \A key \in Keys :
               handle_key(document, viewport_height, scroll_offset, quit, key)[1]
                   \in 0..ExpectedMaxScroll

\* a document of ten lines in a viewport of three, scrolled to the bottom
C24_Witness ==
    /\ loop_pc = "app" /\ document.total_height = 10 /\ viewport_height = 3
    /\ scroll_offset = 7
    /\ scroll_down(document, viewport_height, scroll_offset - 1, usize_MAX) = 7

\* C25: visible_range is the half-open range from scroll_offset to the
\* smaller of scroll_offset + viewport_height and total_height: it holds at
\* most viewport_height indices and does not reach past total_height; at
\* the offset scroll_to_bottom sets on a document taller than the viewport
\* it ends at total_height
C25_VisibleRange ==
    loop_pc = "app" =>
        LET range == visible_range(document, viewport_height, scroll_offset)
            bottom == handle_key(document, viewport_height, scroll_offset, quit, "G")[1]
        IN  /\ range[1] = scroll_offset
            /\ range[2] = Smaller(scroll_offset + viewport_height,
                                  document.total_height)
            /\ range[1] <= range[2]
            /\ range[2] - range[1] <= viewport_height
            /\ range[2] <= Len(document.lines)
            /\ document.total_height > viewport_height =>
                   visible_range(document, viewport_height, bottom)
                       = <<document.total_height - viewport_height,
                           document.total_height>>

\* a document of twenty lines in a viewport of three at the bottom: the
\* range is 17..20
C25_Witness ==
    /\ loop_pc = "app" /\ document.total_height = 20 /\ viewport_height = 3
    /\ scroll_offset = 17
    /\ visible_range(document, viewport_height, scroll_offset) = <<17, 20>>

\* the layout of the blocks at a column count: the document flatten is to
\* return
LayoutAt(cols) ==
    LET lines == FlattenFrom(blocks, 0, IF cols > 1 THEN cols ELSE 1)
    IN  [lines |-> lines, total_height |-> Len(lines)]

\* the viewport height the terminal's rows give
RowsViewport == IF term_rows > 1 THEN term_rows - 1 ELSE 0

\* C23 as stated: the step that handles a resize event leaves the blocks as
\* they are, makes the document the layout of the blocks at the new column
\* count and leaves scroll_offset at most the new total_height less the
\* viewport height of the resized terminal, floored at 0
C23_OffsetWithinNewMaxScroll ==
    [][ResizeEvent(term_cols') =>
           /\ blocks' = blocks
           /\ document' = LayoutAt(term_cols')
           /\ scroll_offset' <= saturating_sub(document'.total_height, RowsViewport')]_vars

\* C23, the part that holds: the same step with the viewport height the App
\* held before the resize, which the handler leaves as it is; scroll_offset
\* becomes the smaller of its old value and total_height less that height
C23_ResizeRelayoutsAndClamps ==
    [][ResizeEvent(term_cols') =>
           /\ blocks' = blocks
           /\ document' = LayoutAt(term_cols')
           /\ scroll_offset' <= ExpectedMaxScroll'
           /\ scroll_offset' = Smaller(scroll_offset, ExpectedMaxScroll')]_vars

\* a resize to another number of rows has just been handled with the
\* document scrolled to its end
C23_Witness ==
    /\ loop_pc = "size" /\ viewport_height > 0
    /\ viewport_height # RowsViewport
    /\ scroll_offset > 0 /\ scroll_offset = ExpectedMaxScroll

\* C26 as stated, its range: what scroll_percent returns for the App the
\* event loop holds is in 0..=100
C26_PercentInRange ==
    scroll_percent(document, viewport_height, scroll_offset) \in 0..100

\* C27: a q, Esc or Ctrl+C key sets quit; no key handled with quit set and
\* no step of the loop clears it; the loop has exited whenever quit is set,
\* it exits in the step that handles the key, and it takes no step after
C27_QuitExitsLoop ==
    /\ [](/\ quit => loop_pc = "exited"
          /\ \A key \in {"q", "Esc", "Ctrl+c"} :
                 handle_key(document, viewport_height, scroll_offset, quit, key)[2]
          /\ \A key \in Keys :
                 handle_key(document, viewport_height, scroll_offset, TRUE, key)[2])
    /\ [][/\ quit => quit'
          /\ loop_pc # "exited"
          /\ (quit' /\ ~quit) =>
                 /\ loop_pc = "read" /\ loop_pc' = "exited"
                 /\ \E key \in {"q", "Esc", "Ctrl+c"} : KeyEvent(key)]_vars

\* the loop has exited on a quit key after the document was scrolled
C27_Witness ==
    /\ quit /\ loop_pc = "exited" /\ scroll_offset > 0 /\ viewport_height > 0

\* C28: the blocks the loop was given never change, and after any sequence
\* of resize and key events the document is the layout of those blocks at
\* the most recent column count
C28_DocumentIsLayoutOfBlocks ==
    /\ [](document = LayoutAt(term_cols))
    /\ [][blocks' = blocks]_vars

\* after scrolling, a resize to one column has just been handled: the
\* heading of three words takes three lines
C28_Witness ==
    /\ loop_pc = "size" /\ viewport_height # RowsViewport /\ scroll_offset > 0
    /\ term_cols = 1 /\ Len(blocks) = 1 /\ blocks[1].kind = "Heading"
    /\ document.total_height = 3

\* the number of lines of a text: one for each line feed and one more for
\* what follows the last of them
SourceLineCount(code) ==
    Cardinality({i \in 1..Len(code) : code[i] = NL})
        + (IF code # <<>> /\ code[Len(code)] # NL THEN 1 ELSE 0)

\* the place of the k-th line feed of a text: 0 for k = 0, past the end when
\* the text has fewer
LineFeedAt(code, k) ==
    IF k = 0 THEN 0
    ELSE IF \E i \in 1..Len(code) :
                code[i] = NL /\ Cardinality({j \in 1..i : code[j] = NL}) = k
    THEN CHOOSE i \in 1..Len(code) :
                code[i] = NL /\ Cardinality({j \in 1..i : code[j] = NL}) = k
    ELSE Len(code) + 1

\* the k-th line of a text without its line feed and without the carriage
\* return before that line feed
SourceLine(code, k) ==
    LET first == LineFeedAt(code, k - 1) + 1
        last == LineFeedAt(code, k) - 1
    IN  IF LineFeedAt(code, k) <= Len(code) /\ last >= first /\ code[last] = CR
        THEN SubSeq(code, first, last - 1)
        ELSE SubSeq(code, first, last)

\* highlight_code has returned
HighlightReturned == h_pc \in {"oversize", "no_theme", "highlighted"}

\* C29: every call of highlight_code returns a line list; when the code is
\* longer than 512 KiB or the theme set has neither the named theme nor the
\* default one, the list is the source lines, each as one unstyled span;
\* otherwise every line highlight_line did not fail on is styled with the
\* plain-text syntax if the language is empty or unknown and with the
\* language's syntax if not, and with the named theme if the theme set has
\* it and with the default theme if not
C29_AlwaysReturnsLines ==
    HighlightReturned =>
        /\ DOMAIN h_lines = 1..SourceLineCount(h_code)
        /\ \A k \in DOMAIN h_lines : \A i \in DOMAIN h_lines[k] :
               DOMAIN h_lines[k][i] = {"content", "style"}
        /\ IF \/ str_len(h_code) > 512 * 1024
              \/ (h_theme_name \notin h_theme_set /\ DEFAULT_THEME \notin h_theme_set)
           THEN \A k \in DOMAIN h_lines :
                    h_lines[k] = <<[content |-> SourceLine(h_code, k),
                                    style |-> Style_default]>>
           ELSE \A k \in DOMAIN h_lines : \A i \in DOMAIN h_lines[k] :
                    IF k \in h_failing
                    THEN h_lines[k][i].style = Style_default
                    ELSE /\ h_lines[k][i].style.syntax =
                                (IF h_language = <<"r">> THEN "R"
                                 ELSE IF h_language = <<"r", "s">> THEN "Rust"
                                 ELSE "Plain Text")
                         /\ h_lines[k][i].style.theme =
                                (IF h_theme_name \in h_theme_set THEN h_theme_name
                                 ELSE "base16-ocean.dark")

\* two lines of an unknown language were highlighted with an unknown theme
\* name: plain text, default theme
C29_Witness ==
    /\ h_pc = "highlighted" /\ h_theme_set = ThemeSet_load_defaults
    /\ h_language = <<"r", "r">> /\ h_theme_name = "nonexistent-theme"
    /\ h_code = <<"a", NL, "a">> /\ h_failing = {} /\ h_cuts = {}
    /\ h_lines = <<<<[content |-> <<"a">>,
                      style |-> [syntax |-> "Plain Text",
                                 theme |-> "base16-ocean.dark"]]>>,
                   <<[content |-> <<"a">>,
                      style |-> [syntax |-> "Plain Text",
                                 theme |-> "base16-ocean.dark"]]>>>>

\* every carriage return of the text is followed by a line feed
LfOrCrlf(code) ==
    \A i \in 1..Len(code) : code[i] = CR => (i < Len(code) /\ code[i + 1] = NL)

\* C30: highlight_code returns as many lines as the code has, none for empty
\* code; and when the code's line endings are "\n" or "\r\n", no span of a
\* returned line holds a "\n" or a "\r", whichever way the call returned
C30_NoLineEndingInSpans ==
    HighlightReturned =>
        /\ Len(h_lines) = SourceLineCount(h_code)
        /\ (h_code = <<>> => h_lines = <<>>)
        /\ LfOrCrlf(h_code) =>
               \A k \in 1..Len(h_lines) : \A i \in 1..Len(h_lines[k]) :
                   \A j \in 1..Len(h_lines[k][i].content) :
                       h_lines[k][i].content[j] \notin {"\n", "\r"}

\* a line that ends in "\r\n" was highlighted as one range
C30_Witness ==
    /\ h_pc = "highlighted" /\ h_code = <<"a", CR, NL>> /\ h_cuts = {}
    /\ h_failing = {} /\ h_language = <<"r">>
    /\ h_theme_set = ThemeSet_load_defaults /\ h_theme_name = DEFAULT_THEME
    /\ h_lines = <<<<[content |-> <<"a">>,
                      style |-> [syntax |-> "R", theme |-> DEFAULT_THEME]]>>>>

(***************************************************************************)
(* Properties of the parser, continued.                                    *)
(***************************************************************************)
\* a stack without its top entry
Below(stack) == SubSeq(stack, 1, Len(stack) - 1)

\* the event taken last left everything but the state stack as it was
OnlyStateStackMayDiffer ==
    /\ After.style_stack = Before.style_stack
    /\ After.current_spans = Before.current_spans
    /\ After.blocks = Before.blocks
    /\ After.hl_calls = Before.hl_calls
    /\ After.outcome = "continue"

\* C31: an event taken while the top state is Skipping{depth} changes the
\* state stack alone: a start makes the top Skipping{depth + 1}, an end pops
\* the top at depth 0 and makes it Skipping{depth - 1} otherwise, any other
\* event changes nothing; no depth is below 0, and the height of the state
\* stack changes at the end event taken at depth 0 and at no other event
C31_SkippingCountsNesting ==
    /\ \A k \in 1..Len(trace) : \A n \in 1..Len(trace[k].state_stack) :
           trace[k].state_stack[n].kind = "Skipping" =>
               trace[k].state_stack[n].depth >= 0
    /\ (Stepped /\ TopIs(Before.state_stack, "Skipping")) =>
           /\ OnlyStateStackMayDiffer
           /\ After.state_stack =
                  (IF Ev.kind = "Start"
                   THEN Below(Before.state_stack)
                        \o <<[kind |-> "Skipping",
                              depth |-> Last(Before.state_stack).depth + 1]>>
                   ELSE IF Ev.kind = "End" /\ Last(Before.state_stack).depth = 0
                   THEN Below(Before.state_stack)
                   ELSE IF Ev.kind = "End"
                   THEN Below(Before.state_stack)
                        \o <<[kind |-> "Skipping",
                              depth |-> Last(Before.state_stack).depth - 1]>>
                   ELSE Before.state_stack)
           /\ Len(After.state_stack) # Len(Before.state_stack) <=>
                  (Ev.kind = "End" /\ Last(Before.state_stack).depth = 0)

\* a text was taken at depth 2 of a skipped construct, and later an end
\* event at depth 0 has popped the Skipping state
C31_Witness ==
    /\ Stepped /\ TopIs(Before.state_stack, "Skipping")
    /\ Ev.kind = "End" /\ Last(Before.state_stack).depth = 0
    /\ After.state_stack = <<TopLevel>>
    /\ \E k \in 1..(ev_idx - 1) :
           /\ TopIs(trace[k].state_stack, "Skipping")
           /\ Last(trace[k].state_stack).depth = 2
           /\ events[k].kind = "Text"

\* C32: an event taken while the top state is InCodeBlock that is neither a
\* Text nor the end of a code block leaves the state stack with its buffer,
\* the style stack, the span accumulator and the block list as they were; a
\* Text changes the buffer alone, which gets the text at its end
C32_CodeBlockIgnoresOtherEvents ==
    (Stepped /\ TopIs(Before.state_stack, "InCodeBlock")) =>
        /\ (Ev.kind # "Text" /\ ~(Ev.kind = "End" /\ Ev.tag.name = "CodeBlock")) =>
               /\ OnlyStateStackMayDiffer
               /\ After.state_stack = Before.state_stack
        /\ Ev.kind = "Text" =>
               /\ OnlyStateStackMayDiffer
               /\ After.state_stack =
                      Below(Before.state_stack)
                      \o <<[kind |-> "InCodeBlock",
                            language |-> Last(Before.state_stack).language,
                            buffer |-> Last(Before.state_stack).buffer \o Ev.text]>>

\* a soft break was taken inside a code block whose buffer held a line
C32_Witness ==
    /\ Stepped /\ TopIs(Before.state_stack, "InCodeBlock")
    /\ Ev.kind = "SoftBreak"
    /\ Last(Before.state_stack).buffer = <<"a", NL>>
    /\ Last(After.state_stack).buffer = <<"a", NL>>

\* C33: in normal dispatch a soft break appends one span of text " " and a
\* hard break one span of text "\n", in the style every entry of the style
\* stack applied in order gives; the state stack, the style stack and the
\* block list stay as they were
C33_BreaksAppendOneSpan ==
    (Stepped /\ NormalDispatch(Before.state_stack)
        /\ Ev.kind \in {"SoftBreak", "HardBreak"}) =>
        /\ After.current_spans =
               Before.current_spans
               \o <<[text |-> IF Ev.kind = "SoftBreak" THEN <<" ">> ELSE <<"\n">>,
                     style |-> ExpectedFold(Before.style_stack)]>>
        /\ After.state_stack = Before.state_stack
        /\ After.style_stack = Before.style_stack
        /\ After.blocks = Before.blocks
        /\ After.hl_calls = Before.hl_calls

\* a soft break was taken inside an emphasis of a paragraph
C33_Witness ==
    /\ Stepped /\ Ev.kind = "SoftBreak"
    /\ TopIs(Before.state_stack, "InParagraph")
    /\ Len(Before.style_stack) = 1
    /\ Last(After.current_spans).text = <<" ">>
    /\ Last(After.current_spans).style.add_modifier = {Modifier_ITALIC}

\* the event taken last found the state stack empty
Underflow == Stepped /\ Before.state_stack = <<>>

\* C35 as stated: an event that finds the state stack empty ends parse, which
\* returns the blocks emitted so far
C35_UnderflowStops ==
    Underflow => (parse_pc = "returned" /\ blocks = Before.blocks)

\* C35: an event that finds the state stack empty changes nothing and is
\* the last one taken: without debug assertions parse returns the blocks
\* emitted so far, with debug assertions it panics; no step follows
C35_UnderflowStopsInRelease ==
    /\ [](Underflow =>
              /\ After.blocks = Before.blocks /\ blocks = Before.blocks
              /\ After.state_stack = <<>>
              /\ After.style_stack = Before.style_stack
              /\ After.current_spans = Before.current_spans
              /\ After.hl_calls = Before.hl_calls
              /\ parse_pc = IF debug_assertions THEN "panicked" ELSE "returned")
    /\ [][parse_pc = "loop"]_vars

\* without debug assertions parse has returned a block at an event that
\* found the state stack empty, with events left over
C35_Witness ==
    /\ Underflow /\ ~debug_assertions /\ parse_pc = "returned"
    /\ ev_idx < Len(events) /\ blocks # <<>>

\* the last event has been taken
AfterLastEvent == parse_pc # "idle" /\ ev_idx = Len(events)

\* every start event of the stream has its end event in the stream
EveryStartClosed == Balance(Len(events)) = 0

TextBlockEvent(k, kind) ==
    events[k].kind = kind /\ events[k].tag.name \in {"Heading", "Paragraph"}

\* event k is one that appends a span
AppendsSpan(k) ==
    /\ NormalDispatch(trace[k].state_stack)
    /\ events[k].kind \in {"Text", "Code", "SoftBreak", "HardBreak"}

\* the span event k appends: its text, in the style the parser gave it
SpanOf(k) ==
    [text |-> CASE events[k].kind = "SoftBreak" -> <<" ">>
                [] events[k].kind = "HardBreak" -> <<"\n">>
                [] OTHER -> events[k].text,
     style |-> Last(trace[k + 1].current_spans).style]

RECURSIVE SpansFrom(_, _)
\* the spans appended by the events k .. j - 1, in order
SpansFrom(k, j) ==
    IF k >= j THEN <<>>
    ELSE (IF AppendsSpan(k) THEN <<SpanOf(k)>> ELSE <<>>) \o SpansFrom(k + 1, j)

\* the event that pushed the state that is on top before event j, 0 when
\* no event did
PushedAt(j) ==
    LET h == Len(trace[j].state_stack)
        pushes == {i \in 1..(j - 1) :
                      /\ Len(trace[i].state_stack) = h - 1
                      /\ \A m \in (i + 1)..j : Len(trace[m].state_stack) >= h}
    IN  IF pushes = {} THEN 0 ELSE CHOOSE i \in pushes : TRUE

\* the event taken last emitted a Heading or a Paragraph
EmitsTextBlock ==
    /\ Stepped /\ NormalDispatch(Before.state_stack) /\ TextBlockEvent(ev_idx, "End")
    /\ Len(After.blocks) = Len(Before.blocks) + 1

\* the block list grows at its end, by one block at a time
BlocksInEventOrder ==
    Stepped =>
        \/ After.blocks = Before.blocks
        \/ /\ Len(After.blocks) = Len(Before.blocks) + 1
           /\ SubSeq(After.blocks, 1, Len(Before.blocks)) = Before.blocks
           /\ \/ Ev.kind = "Rule" /\ Last(After.blocks).kind = "ThematicBreak"
              \/ Ev.kind = "End"

OwnStartUndisturbed ==
    /\ PushedAt(ev_idx) > 0
    /\ TextBlockEvent(PushedAt(ev_idx), "Start")
    /\ events[PushedAt(ev_idx)].tag.name = Ev.tag.name
    /\ \A k \in (PushedAt(ev_idx) + 1)..(ev_idx - 1) :
           ~(NormalDispatch(trace[k].state_stack) /\ TextBlockEvent(k, "Start"))

Offsets == 0..(Len(plain) + 1)

\* [start, end) selects no byte of the buffer
EmptyRange(start, end_) == start >= end_ \/ start >= Len(plain)

\* [start, end) is not empty and lies in the buffer on character boundaries
RangeOnBoundaries(start, end_) ==
    /\ start < end_ /\ end_ <= Len(plain)
    /\ is_char_boundary(plain, start) /\ is_char_boundary(plain, end_)

\* the texts of runs, concatenated
RunsText(runs) == Concat([k \in 1..Len(runs) |-> runs[k].content])

\* the offset in the buffer of the first byte of run k of a range from start
RunOffset(runs, start, k) == start + Len(RunsText(SubSeq(runs, 1, k - 1)))

\* the runs are the maximal runs of one style of plain[start..end]
MaximalRuns(runs, start, end_) ==
    /\ RunsText(runs) = SubSeq(plain, start + 1, end_)
    /\ \A k \in 1..Len(runs) :
           /\ runs[k].content # <<>>
           /\ \A i \in 1..Len(runs[k].content) :
                  byte_styles[RunOffset(runs, start, k) + i] = runs[k].style
    /\ \A k \in 1..(Len(runs) - 1) : runs[k].style # runs[k + 1].style

\* C34 as stated: a range of the buffer on character boundaries gives its
\* maximal runs of one style; every other range, empty or reaching out of the
\* buffer, gives no runs
C34_RunsOrNothing ==
    \A start \in Offsets : \A end_ \in Offsets :
        IF RangeOnBoundaries(start, end_)
        THEN MaximalRuns(build_spans_for_range(plain, byte_styles, start, end_),
                         start, end_)
        ELSE (EmptyRange(start, end_) \/ end_ > Len(plain)) =>
                 /\ SliceInBounds(plain, start, end_)
                 /\ build_spans_for_range(plain, byte_styles, start, end_) = <<>>

\* C34: a range of the buffer on character boundaries gives its maximal
\* runs of one style; a range that is empty or starts at or past the end of
\* the buffer gives no runs; a range that starts in the buffer and ends
\* past it is a slice out of bounds
C34_RunsOfRange ==
    \A start \in Offsets : \A end_ \in Offsets :
        /\ RangeOnBoundaries(start, end_) =>
               MaximalRuns(build_spans_for_range(plain, byte_styles, start, end_),
                           start, end_)
        /\ EmptyRange(start, end_) =>
               /\ SliceInBounds(plain, start, end_)
               /\ build_spans_for_range(plain, byte_styles, start, end_) = <<>>
        /\ (start < Len(plain) /\ end_ > Len(plain)) =>
               ~SliceInBounds(plain, start, end_)

\* a line has been built of two runs, one of them of several bytes, from a
\* buffer that holds a character of several bytes
C34_Witness ==
    /\ \E i \in 1..Len(plain) : plain[i] = CONT
    /\ \E k \in 1..Len(wrapped) :
           /\ Len(wrapped[k]) >= 2
           /\ \E r \in 1..Len(wrapped[k]) : Len(wrapped[k][r].content) >= 2
           /\ MaximalRuns(wrapped[k], ranges[k][1], ranges[k][2])

(***************************************************************************)
(* Properties of the event loop, continued                                 *)
(***************************************************************************)
\* C36 as stated: when a frame is drawn scroll_offset is at most max_scroll()
\* at the viewport height the frame is drawn with
C36_OffsetWithinMaxScrollAtDraw ==
    loop_pc = "draw" => scroll_offset <= max_scroll(document, viewport_height)

\* the indices of document.lines, from 0
LineIndices == 0..(Len(document.lines) - 1)

\* C37: scroll_offset is at most total_height, visible_range has
\* start <= end <= total_height, and every index in it is an index of
\* document.lines
C37_OffsetWithinDocument ==
    LET range == visible_range(document, viewport_height, scroll_offset)
    IN  /\ scroll_offset <= document.total_height
        /\ range[1] <= range[2] /\ range[2] <= document.total_height
        /\ \A index \in range[1]..(range[2] - 1) : index \in LineIndices

\* just after a resize that changed the rows, at a width where the document
\* is shorter than at another, scroll_offset is at the end of the document
C37_Witness ==
    /\ loop_pc = "size" /\ viewport_height > 0 /\ viewport_height # RowsViewport
    /\ scroll_offset > 0
    /\ scroll_offset = document.total_height - viewport_height
    /\ \E cols \in 0..MaxWidth : LayoutAt(cols).total_height > document.total_height

(***************************************************************************)
(* Properties of main                                                      *)
(***************************************************************************)
\* run_event_loop has returned to main, after a quit or with an error
LoopReturned == main_pc = "loop" /\ loop_pc \in {"exited", "failed"}

\* C40: ratatui::restore() is never called before ratatui::init() has
\* returned and never twice; main returns with the terminal initialised
\* only after the loop has returned, with quit set or with the loop's error,
\* and then has restored it once; a panic has restored it once when
\* TERMINAL_ACTIVE was set and not at all otherwise; an error of the size
\* guard or of a read is returned with the terminal never initialised; and
\* once the loop has returned, main restores the terminal and returns
C40_RestoredOnceOnExit ==
    /\ [](/\ restores \in {0, 1}
          /\ ~terminal_initialised => (restores = 0 /\ ~TERMINAL_ACTIVE)
          /\ TERMINAL_ACTIVE => terminal_initialised
          /\ (main_pc = "returned" /\ terminal_initialised) =>
                 /\ restores = 1
                 /\ (quit /\ main_err = "none") \/ main_err = "loop"
          /\ main_pc = "panicked" =>
                 restores = (IF TERMINAL_ACTIVE THEN 1 ELSE 0)
          /\ (main_pc = "returned" /\ main_err \notin {"none", "loop"}) =>
                 (~terminal_initialised /\ restores = 0)
          /\ (main_pc = "returned" /\ file_size > MAX_FILE_BYTES) =>
                 main_err \in {"install", "metadata", "too_large"})
    /\ LoopReturned ~> (main_pc = "returned" /\ restores = 1)

\* main has returned the error of a failed read of the terminal in the
\* loop, with a document on screen and the terminal restored once
C40_Witness ==
    /\ main_pc = "returned" /\ main_err = "loop" /\ loop_pc = "failed"
    /\ terminal_initialised /\ TERMINAL_ACTIVE /\ restores = 1
    /\ viewport_height > 0 /\ document.total_height > 0

====
